---------------------------- MODULE Spec2Model ----------------------------
(***************************************************************************)
(* Model of the PulseAudio device core: pa_source (source.c), its          *)
(* pa_source_output streams (source-output.c) and the pa_sink_input        *)
(* counterpart (sink-input.c), all three in src/unnamed/part_000.          *)
(*                                                                         *)
(* The module holds several specifications over one set of variables:      *)
(*   Spec      the control-thread life cycle of one source and its         *)
(*             source outputs (put, suspend, update_status, update_rate,   *)
(*             stream new/put/cork/unlink, unlink);                        *)
(*   SpecPort  pa_source_set_port with the IO thread's SET_PORT handler;   *)
(*   SpecVol   the deferred hardware-volume queue (push / apply);          *)
(*   SpecMove  the filter-source graph and pa_source_output_may_move_to.   *)
(* Every specification leaves the variables of the others unchanged.       *)
(***************************************************************************)
EXTENDS Integers, Sequences, FiniteSets, TLC

(***************************************************************************)
(* Bounds of the model.                                                    *)
(***************************************************************************)
\* number of source-output objects of the life-cycle specification
NOutputs == 2
\* a handler's state-changing source_set_state() calls up to this one may be
\* the one that is rejected
MaxSetStateCalls == 2
\* the clock of the deferred-volume specification runs from SafetyMargin
\* to MaxTime (in units of the clock)
MaxTime == 4
\* pa_source_get_latency_within_thread() returns 0..MaxLatency
MaxLatency == 1
\* s->thread_info.volume_change_safety_margin and
\* s->thread_info.volume_change_extra_delay of the modelled source
SafetyMargin == 2
ExtraDelay == 0
\* i->sink->thread_info.max_rewind of the sink of the rewind specification
MaxRewind == 2
\* the indexes of the render queue stay within -MaxIndex..MaxIndex
MaxIndex == 4
\* a run of the flat-volume specification makes at most MaxCalls calls
MaxCalls == 4

(***************************************************************************)
(* Program constants.                                                      *)
(***************************************************************************)
\* s->default_sample_rate and s->alternate_sample_rate of the modelled source
DefaultRate == 44100
AlternateRate == 48000
\* lower limit of pa_source_update_rate and PA_RATE_MAX
RateMin == 8000
RateMax == 192000

\* PA_MAX_OUTPUTS_PER_SOURCE and PA_MAX_INPUTS_PER_SINK
MaxOutputsPerSource == 32
MaxInputsPerSink == 32

VARIABLES
    source,     \* Spec: the pa_source (fields of struct pa_source)
    output,     \* Spec: output[o], the pa_source_output objects
    last,       \* the last call, its arguments and return value
    now,                \* SpecVol: pa_rtclock_now()
    volume_changes,     \* SpecVol: s->thread_info.volume_changes, head first
    volume_changes_tail,    \* SpecVol: s->thread_info.volume_changes_tail
    current_hw_volume,  \* SpecVol: s->thread_info.current_hw_volume
    vol_log,            \* SpecVol: record of what the IO thread did
    call,       \* SpecPort: the pa_source_set_port call of the control thread
    msg,        \* SpecPort: the SET_PORT message and its reply
    impl,       \* SpecPort: what the implementor and the hooks have seen
    core,       \* SpecMove: the devices of the core and their streams
    input,      \* SpecRewind: i->thread_info of a sink input and its render queue
    tree,       \* SpecRoute, SpecFlat: the sources, their outputs and the move queue
    budget,     \* SpecFlat: the number of calls left in the run
    mixer,      \* SpecCondense: the paths of a pa_alsa_path_set
    latstate,   \* SpecLatency: the latency fields of a source and its outputs
    group,      \* SpecSync: the sink inputs of a sync group
    capture     \* SpecPost: the IO thread's view of a source that posts chunks

Outputs == 1..NOutputs

\* pa_suspend_cause_t, a bitmask in the code, a set of causes here
Causes == {"USER", "APPLICATION", "IDLE", "SESSION", "PASSTHROUGH"}
\* the causes the callers of the life-cycle specification suspend with
LifeCauses == {"IDLE", "PASSTHROUGH"}

SourceStates == {"INIT", "IDLE", "RUNNING", "SUSPENDED", "UNLINKED"}

\* PA_SOURCE_IS_OPENED, PA_SOURCE_IS_LINKED, PA_SOURCE_IS_RUNNING
PA_SOURCE_IS_OPENED(st) == st \in {"IDLE", "RUNNING"}
PA_SOURCE_IS_LINKED(st) == st \in {"IDLE", "RUNNING", "SUSPENDED"}
PA_SOURCE_IS_RUNNING(st) == st = "RUNNING"
\* PA_SOURCE_OUTPUT_IS_LINKED
PA_SOURCE_OUTPUT_IS_LINKED(st) == st \in {"RUNNING", "CORKED"}


(***************************************************************************)
(* Control-thread handlers of the life-cycle specification.  The handlers  *)
(* call each other, so each is an operator on a working record             *)
(*   w = [s |-> source, o |-> output, k |-> calls, ret |-> value,          *)
(*        abort |-> an assertion of the code failed,                       *)
(*        killed |-> the streams pa_source_output_kill was called on,      *)
(*        notified |-> the <<stream, b>> the suspend callback was given,   *)
(*        on_suspend |-> the streams source_set_state killed on suspending,*)
(*        hw |-> the callbacks and messages that write the mixer settings  *)
(*               to the hardware, in the order they were made,             *)
(*        cb |-> the update_rate callback of the implementor was called,   *)
(*        ev |-> the states s->set_state was called with and the states    *)
(*               the SOURCE_STATE_CHANGED hook fired for, in their order,  *)
(*        rej |-> who returned the negative value of the source_set_state  *)
(*                call that was rejected: "set_state", "SET_STATE"]        *)
(* and an action applies one handler to the current state.  The return     *)
(* values are "OK" (0) or the name of the negative PA_ERR_* code; "FAIL"   *)
(* is the negative value an implementor callback returned.                 *)
(*                                                                         *)
(* oc says which state-changing source_set_state() call of the handler is  *)
(* rejected (0 for none): call oc by the implementor's set_state callback  *)
(* for oc > 0, call -oc by the SET_STATE message returning < 0 for oc < 0. *)
(***************************************************************************)
OutcomeSeqs == (0 - MaxSetStateCalls)..MaxSetStateCalls

Work(s, o) == [s |-> s, o |-> o, k |-> 0, ret |-> "OK", abort |-> FALSE,
               killed |-> {}, notified |-> {}, on_suspend |-> {}, cb |-> FALSE,
               hw |-> <<>>, ev |-> <<>>, rej |-> "none"]

\* pa_assert(cond): the program aborts when cond is false
PaAssert(w, cond) == IF cond THEN w ELSE [w EXCEPT !.abort = TRUE]

\* the least index of a non-empty set of stream indexes (idxset order)
First(S) == CHOOSE x \in S : \A y \in S : x <= y

\* pa_source_used_by: the streams of s->outputs that are not counted corked
pa_source_used_by(s) == Cardinality(s.outputs) - s.n_corked

\* update_n_corked(o, state): the change of o->source->n_corked
update_n_corked(w, o, state) ==
    IF ~w.o[o].source THEN w
    ELSE IF w.o[o].state = "CORKED" /\ state # "CORKED"
         THEN PaAssert([w EXCEPT !.s.n_corked = @ - 1], w.s.n_corked >= 1)
    ELSE IF w.o[o].state # "CORKED" /\ state = "CORKED"
         THEN [w EXCEPT !.s.n_corked = @ + 1]
    ELSE w

\* pa_sample_spec_equal(&o->sample_spec, &s->sample_spec): the streams of
\* the model differ from the source in the rate only
SpecDiffers(orate, s) == orate # s.rate

\* the pa_source_output_new_data stream object o is created from: the flags
\* PA_SOURCE_OUTPUT_KILL_ON_SUSPEND, START_CORKED and NO_CREATE_ON_SUSPEND,
\* a passthrough (non-PCM) format, and the sample rate
NewData(o) ==
    [kill_on_suspend |-> (o % 2 = 0), start_corked |-> (o % 2 = 0),
     no_create_on_suspend |-> (o % 3 = 0), passthrough |-> (o % 2 = 0),
     rate |-> IF o % 2 = 1 THEN AlternateRate ELSE DefaultRate]

RECURSIVE source_set_state(_, _, _)

\* pa_source_update_status without the early return of a suspended source
update_status_NoSuspendedReturn(w, oc) ==
    IF ~PA_SOURCE_IS_LINKED(w.s.state) THEN PaAssert(w, FALSE)
    ELSE source_set_state(w, IF pa_source_used_by(w.s) > 0 THEN "RUNNING" ELSE "IDLE", oc)

\* pa_source_update_status
pa_source_update_status(w, oc) ==
    IF ~PA_SOURCE_IS_LINKED(w.s.state) THEN PaAssert(w, FALSE)
    ELSE IF w.s.state = "SUSPENDED" THEN [w EXCEPT !.ret = "OK"]
    ELSE source_set_state(w, IF pa_source_used_by(w.s) > 0 THEN "RUNNING" ELSE "IDLE", oc)

\* pa_source_output_unlink
pa_source_output_unlink(w, o, oc) ==
    LET linked == PA_SOURCE_OUTPUT_IS_LINKED(w.o[o].state)
        attached == w.o[o].source
        \* pa_idxset_remove_by_data(o->source->outputs, o)
        w1 == IF attached THEN [w EXCEPT !.s.outputs = @ \ {o}] ELSE w
        w2 == [update_n_corked(w1, o, "UNLINKED") EXCEPT !.o[o].state = "UNLINKED"]
        \* PA_SOURCE_MESSAGE_REMOVE_OUTPUT, handled by the IO thread
        w3 == IF linked /\ attached /\ w2.s.asyncmsgq
              THEN PaAssert([w2 EXCEPT !.s.thread_info.outputs = @ \ {o},
                                       !.o[o].thread_info.attached = FALSE],
                            w2.o[o].thread_info.attached)
              ELSE w2
        w4 == IF attached /\ PA_SOURCE_IS_LINKED(w3.s.state)
              THEN pa_source_update_status(w3, oc) ELSE w3
    IN  IF attached THEN [w4 EXCEPT !.o[o].source = FALSE] ELSE w4

\* pa_source_output_kill: o->kill(o) of the implementor unlinks the stream
\* (pa_source_unlink asserts that a killed stream has left s->outputs)
pa_source_output_kill(w, o, oc) ==
    IF ~PA_SOURCE_OUTPUT_IS_LINKED(w.o[o].state) THEN PaAssert(w, FALSE)
    ELSE pa_source_output_unlink([w EXCEPT !.killed = @ \cup {o}], o, oc)

\* the loop of source_set_state without the kill of KILL_ON_SUSPEND streams
RECURSIVE NotifySuspend_NoKill(_, _, _, _)
NotifySuspend_NoKill(w, todo, state, oc) ==
    IF todo = {} \/ w.abort THEN w
    ELSE LET o == First(todo)
         IN  NotifySuspend_NoKill(
                 [w EXCEPT !.notified = @ \cup {<<o, state = "SUSPENDED">>}],
                 todo \ {o}, state, oc)

\* the PA_IDXSET_FOREACH loop of source_set_state over the streams `todo`
RECURSIVE NotifySuspend(_, _, _, _)
NotifySuspend(w, todo, state, oc) ==
    IF todo = {} \/ w.abort THEN w
    ELSE LET o == First(todo)
             w1 == IF w.s.state = "SUSPENDED" /\ NewData(o).kill_on_suspend
                   THEN pa_source_output_kill([w EXCEPT !.on_suspend = @ \cup {o}], o, oc)
                   ELSE [w EXCEPT !.notified = @ \cup {<<o, state = "SUSPENDED">>}]
         IN  NotifySuspend(w1, todo \ {o}, state, oc)

\* source_set_state that does not tell the implementor of a state change
\* the IO thread rejected
set_state_NoCallBack(w, state, oc) ==
    IF w.s.state = state THEN [w EXCEPT !.ret = "OK"]
    ELSE
    LET k == w.k + 1
        suspend_change ==
            \/ w.s.state = "SUSPENDED" /\ PA_SOURCE_IS_OPENED(state)
            \/ PA_SOURCE_IS_OPENED(w.s.state) /\ state = "SUSPENDED"
        wk == [w EXCEPT !.k = k, !.ev = Append(@, <<"set_state", state>>)]
    IN  IF k = oc THEN [wk EXCEPT !.ret = "FAIL", !.rej = "set_state"]
        ELSE IF w.s.asyncmsgq /\ k = 0 - oc
        THEN [wk EXCEPT !.ret = "FAIL", !.rej = "SET_STATE"]
        ELSE
        LET w1 == [wk EXCEPT !.s.state = state,
                             !.s.thread_info.state =
                                 IF w.s.asyncmsgq THEN state ELSE @,
                             !.ev = IF state # "UNLINKED"
                                    THEN Append(@, <<"hook", state>>) ELSE @]
            w2 == IF suspend_change
                  THEN NotifySuspend(w1, w1.s.outputs, state, oc) ELSE w1
        IN  [w2 EXCEPT !.ret = "OK"]

\* source_set_state
source_set_state(w, state, oc) ==
    IF w.s.state = state THEN [w EXCEPT !.ret = "OK"]
    ELSE
    LET k == w.k + 1
        original_state == w.s.state
        suspend_change ==
            \/ original_state = "SUSPENDED" /\ PA_SOURCE_IS_OPENED(state)
            \/ PA_SOURCE_IS_OPENED(original_state) /\ state = "SUSPENDED"
        \* s->set_state(s, state)
        wk == [w EXCEPT !.k = k, !.ev = Append(@, <<"set_state", state>>)]
    IN  IF k = oc THEN [wk EXCEPT !.ret = "FAIL", !.rej = "set_state"]
        ELSE IF w.s.asyncmsgq /\ k = 0 - oc
        THEN [wk EXCEPT !.ret = "FAIL", !.rej = "SET_STATE",
                        !.ev = Append(@, <<"set_state", original_state>>)]
        ELSE
        LET w1 == [wk EXCEPT !.s.state = state,
                             !.s.thread_info.state =
                                 IF w.s.asyncmsgq THEN state ELSE @,
                             !.ev = IF state # "UNLINKED"
                                    THEN Append(@, <<"hook", state>>) ELSE @]
            w2 == IF suspend_change
                  THEN NotifySuspend(w1, w1.s.outputs, state, oc) ELSE w1
        IN  [w2 EXCEPT !.ret = "OK"]

\* pa_source_suspend that consumes the flag and writes nothing
UpdateMixer_Nothing(s) == <<>>

\* pa_source_suspend, the mixer is accessible again: the port is set
\* (through the SET_PORT message of a source with deferred volume), or, for
\* a source without an active port or without set_port, the mute and the
\* volume are written by the callbacks the source has
UpdateMixer(s) ==
    IF s.active_port # "NULL" /\ s.has_set_port
    THEN IF s.deferred_volume THEN <<"SET_PORT">> ELSE <<"set_port">>
    ELSE (IF s.has_set_mute THEN <<"set_mute">> ELSE <<>>)
             \o (IF s.has_set_volume THEN <<"set_volume">> ELSE <<>>)

\* pa_source_suspend without the rejection of a monitor source
suspend_NoMonitorCheck(w, suspend, cause, oc) ==
    IF ~PA_SOURCE_IS_LINKED(w.s.state) THEN PaAssert(w, FALSE)
    ELSE
    LET w1 == [w EXCEPT !.s.suspend_cause =
                   IF suspend THEN @ \cup {cause} ELSE @ \ {cause}]
        w2 == IF "SESSION" \notin w1.s.suspend_cause /\ w1.s.mixer_dirty
              THEN [w1 EXCEPT !.s.mixer_dirty = FALSE, !.hw = UpdateMixer(w1.s)]
              ELSE w1
    IN  IF (w2.s.state = "SUSPENDED") = (w2.s.suspend_cause # {})
        THEN [w2 EXCEPT !.ret = "OK"]
        ELSE IF w2.s.suspend_cause # {}
        THEN source_set_state(w2, "SUSPENDED", oc)
        ELSE source_set_state(w2, IF pa_source_used_by(w2.s) > 0
                                  THEN "RUNNING" ELSE "IDLE", oc)

\* pa_source_suspend
pa_source_suspend(w, suspend, cause, oc) ==
    IF ~PA_SOURCE_IS_LINKED(w.s.state) THEN PaAssert(w, FALSE)
    ELSE IF w.s.monitor_of /\ cause # "PASSTHROUGH" THEN [w EXCEPT !.ret = "NOTSUPPORTED"]
    ELSE
    LET w1 == [w EXCEPT !.s.suspend_cause =
                   IF suspend THEN @ \cup {cause} ELSE @ \ {cause}]
        \* the mixer is accessible again: the flag is consumed and the
        \* port, or else mute and volume, are written to the hardware
        w2 == IF "SESSION" \notin w1.s.suspend_cause /\ w1.s.mixer_dirty
              THEN [w1 EXCEPT !.s.mixer_dirty = FALSE, !.hw = UpdateMixer(w1.s)]
              ELSE w1
    IN  IF (w2.s.state = "SUSPENDED") = (w2.s.suspend_cause # {})
        THEN [w2 EXCEPT !.ret = "OK"]
        ELSE IF w2.s.suspend_cause # {}
        THEN source_set_state(w2, "SUSPENDED", oc)
        ELSE source_set_state(w2, IF pa_source_used_by(w2.s) > 0
                                  THEN "RUNNING" ELSE "IDLE", oc)

\* the rate pa_source_update_rate settles on for a non-passthrough stream
DesiredRate(rate, passthrough) ==
    LET use_alternate ==
            IF DefaultRate % 4000 # 0
            THEN (AlternateRate % 4000 = 0) /\ (rate % 4000 = 0)
            ELSE (AlternateRate % 11025 = 0) /\ (rate % 11025 = 0)
    IN  IF passthrough THEN rate
        ELSE IF use_alternate THEN AlternateRate ELSE DefaultRate

\* pa_source_update_rate without the refusal of a running source
update_rate_NoRunningCheck(w, rate, passthrough, cb_ok, oc) ==
    IF ~w.s.update_rate THEN [w EXCEPT !.ret = "FALSE"]
    ELSE IF DefaultRate = AlternateRate THEN [w EXCEPT !.ret = "FALSE"]
    ELSE IF rate < RateMin \/ rate > RateMax THEN [w EXCEPT !.ret = "FALSE"]
    ELSE
    LET desired_rate == DesiredRate(rate, passthrough)
    IN  IF desired_rate = w.s.rate THEN [w EXCEPT !.ret = "FALSE"]
        ELSE IF ~passthrough /\ pa_source_used_by(w.s) > 0 THEN [w EXCEPT !.ret = "FALSE"]
        ELSE
        LET w1 == pa_source_suspend(w, TRUE, "IDLE", oc)
        IN  IF cb_ok THEN [w1 EXCEPT !.s.rate = desired_rate, !.ret = "TRUE", !.cb = TRUE]
            ELSE [w1 EXCEPT !.ret = "FALSE", !.cb = TRUE]

\* pa_source_update_rate; ret is "TRUE" or "FALSE".  cb_ok is the result of
\* the implementor's update_rate callback, which stores the new rate in
\* s->sample_spec when it returns TRUE.
pa_source_update_rate(w, rate, passthrough, cb_ok, oc) ==
    IF ~w.s.update_rate THEN [w EXCEPT !.ret = "FALSE"]
    ELSE IF DefaultRate = AlternateRate THEN [w EXCEPT !.ret = "FALSE"]
    ELSE IF PA_SOURCE_IS_RUNNING(w.s.state) THEN [w EXCEPT !.ret = "FALSE"]
    ELSE IF rate < RateMin \/ rate > RateMax THEN [w EXCEPT !.ret = "FALSE"]
    ELSE
    LET desired_rate == DesiredRate(rate, passthrough)
    IN  IF desired_rate = w.s.rate THEN [w EXCEPT !.ret = "FALSE"]
        ELSE IF ~passthrough /\ pa_source_used_by(w.s) > 0 THEN [w EXCEPT !.ret = "FALSE"]
        ELSE
        LET w1 == pa_source_suspend(w, TRUE, "IDLE", oc)
        IN  IF cb_ok THEN [w1 EXCEPT !.s.rate = desired_rate, !.ret = "TRUE", !.cb = TRUE]
            ELSE [w1 EXCEPT !.ret = "FALSE", !.cb = TRUE]

\* pa_source_output_new for the stream object o (the hooks accept)
pa_source_output_new(w, o, cb_ok, oc) ==
    LET data == NewData(o) IN
    IF ~PA_SOURCE_IS_LINKED(w.s.state) THEN [w EXCEPT !.ret = "BADSTATE"]
    ELSE
    LET w1 == IF SpecDiffers(data.rate, w.s)
              THEN pa_source_update_rate(w, data.rate, data.passthrough, cb_ok, oc)
              ELSE w
    IN  IF data.passthrough /\ SpecDiffers(data.rate, w1.s)
        THEN [w1 EXCEPT !.ret = "NOTSUPPORTED"]
        ELSE IF data.no_create_on_suspend /\ w1.s.state = "SUSPENDED"
        THEN [w1 EXCEPT !.ret = "BADSTATE"]
        ELSE IF Cardinality(w1.s.outputs) >= MaxOutputsPerSource
        THEN [w1 EXCEPT !.ret = "TOOLARGE"]
        ELSE [w1 EXCEPT !.o[o] = [state |-> "INIT", source |-> TRUE,
                                  thread_info |-> [attached |-> FALSE, state |-> "INIT"]],
                         !.s.outputs = @ \cup {o},
                         !.ret = "OK"]

\* pa_source_output_put
pa_source_output_put(w, o, oc) ==
    IF w.o[o].state # "INIT" THEN PaAssert(w, FALSE)
    ELSE
    LET state == IF NewData(o).start_corked THEN "CORKED" ELSE "RUNNING"
        w1 == [update_n_corked(w, o, state) EXCEPT !.o[o].state = state]
        \* PA_SOURCE_MESSAGE_ADD_OUTPUT, handled by the IO thread
        w2 == PaAssert([w1 EXCEPT !.s.thread_info.outputs = @ \cup {o},
                                  !.o[o].thread_info.attached = TRUE,
                                  !.o[o].thread_info.state = state],
                       ~w1.o[o].thread_info.attached)
    IN  pa_source_update_status(w2, oc)

\* source_output_set_state, reached through pa_source_output_cork
source_output_set_state(w, o, state, cb_ok, oc) ==
    IF w.o[o].state = state THEN w
    ELSE
    LET w1 == IF /\ w.o[o].state = "CORKED" /\ state = "RUNNING"
                 /\ pa_source_used_by(w.s) = 0
                 /\ SpecDiffers(NewData(o).rate, w.s)
              THEN pa_source_update_rate(w, NewData(o).rate, NewData(o).passthrough, cb_ok, oc)
              ELSE w
        \* PA_SOURCE_OUTPUT_MESSAGE_SET_STATE, handled by the IO thread
        w2 == [w1 EXCEPT !.o[o].thread_info.state = state]
        w3 == [update_n_corked(w2, o, state) EXCEPT !.o[o].state = state]
    IN  pa_source_update_status(w3, oc)

\* pa_source_output_cork
pa_source_output_cork(w, o, b, cb_ok, oc) ==
    IF ~PA_SOURCE_OUTPUT_IS_LINKED(w.o[o].state) THEN PaAssert(w, FALSE)
    ELSE source_output_set_state(w, o, IF b THEN "CORKED" ELSE "RUNNING", cb_ok, oc)

\* pa_source_put
pa_source_put(w, oc) ==
    IF w.s.state # "INIT" THEN PaAssert(w, FALSE)
    ELSE
    LET w1 == PaAssert(w, w.s.asyncmsgq)
        w2 == source_set_state(w1, IF w1.s.suspend_cause # {}
                                   THEN "SUSPENDED" ELSE "IDLE", oc)
    IN  \* pa_assert_se(source_set_state(...) == 0)
        PaAssert(w2, w2.ret = "OK")

\* the while loop of pa_source_unlink: kill the first stream until none is left
RECURSIVE KillAll(_, _, _)
KillAll(w, j, oc) ==
    IF w.s.outputs = {} \/ w.abort THEN w
    ELSE LET o == First(w.s.outputs)
         IN  IF o = j THEN PaAssert(w, FALSE)
             ELSE KillAll(pa_source_output_kill(w, o, oc), o, oc)

\* pa_source_unlink
pa_source_unlink(w, oc) ==
    LET linked == PA_SOURCE_IS_LINKED(w.s.state)
        w1 == KillAll(w, 0, oc)
        w2 == IF linked THEN source_set_state(w1, "UNLINKED", oc)
              ELSE [w1 EXCEPT !.s.state = "UNLINKED"]
    IN  [w2 EXCEPT !.ret = "OK"]

\* pa_source_sync_suspend of a monitor source; sink_state is the state of
\* s->monitor_of
pa_source_sync_suspend(w, sink_state, oc) ==
    IF ~(PA_SOURCE_IS_LINKED(w.s.state) /\ w.s.monitor_of) THEN PaAssert(w, FALSE)
    ELSE IF sink_state = "SUSPENDED" THEN source_set_state(w, "SUSPENDED", oc)
    ELSE source_set_state(w, IF pa_source_used_by(w.s) > 0
                             THEN "RUNNING" ELSE "IDLE", oc)

(***************************************************************************)
(* The life-cycle specification.                                           *)
(***************************************************************************)
\* a stream object that pa_source_output_new has not created yet
NoOutput == [state |-> "NONE", source |-> FALSE,
             thread_info |-> [attached |-> FALSE, state |-> "NONE"]]

\* what the implementor passes to pa_source_new: a monitor source or not,
\* with or without an update_rate callback, and data->suspend_cause
DeviceConfigs ==
    { [monitor_of |-> FALSE, update_rate |-> TRUE, suspend_cause |-> {}],
      [monitor_of |-> TRUE, update_rate |-> TRUE, suspend_cause |-> {}],
      [monitor_of |-> FALSE, update_rate |-> FALSE, suspend_cause |-> {"IDLE"}] }

\* the ports of the source (s->ports) and port->latency_offset of each
Ports == {"p1", "p2", "p3"}
PortLatencyOffset(p) == CASE p = "p1" -> 0 [] p = "p2" -> 1 [] OTHER -> 2

\* the source after pa_source_new and pa_source_set_asyncmsgq
NewSource(cfg) ==
    [state |-> "INIT", suspend_cause |-> cfg.suspend_cause, mixer_dirty |-> FALSE,
     monitor_of |-> cfg.monitor_of, update_rate |-> cfg.update_rate,
     asyncmsgq |-> TRUE, outputs |-> {}, n_corked |-> 0, rate |-> DefaultRate,
     active_port |-> "p1", save_port |-> FALSE,
     latency_offset |-> PortLatencyOffset("p1"),
     deferred_volume |-> FALSE, has_set_port |-> TRUE,
     has_set_mute |-> TRUE, has_set_volume |-> TRUE,
     thread_info |-> [state |-> "INIT", outputs |-> {},
                      latency_offset |-> PortLatencyOffset("p1")]]

NoCall == [op |-> "none", arg |-> <<>>, ret |-> "OK",
           killed |-> {}, notified |-> {}, on_suspend |-> {}, hw |-> <<>>, ev |-> <<>>,
           rej |-> "none"]

InitLife ==
    /\ \E cfg \in DeviceConfigs : source = NewSource(cfg)
    /\ output = [o \in Outputs |-> NoOutput]
    /\ last = NoCall

\* a handler ran to completion (no assertion failed) and left w; the streams
\* it called pa_source_output_kill on and the suspend callbacks it made are
\* kept with the call
Apply(op, arg, w) ==
    /\ ~w.abort
    /\ source' = w.s
    /\ output' = w.o
    /\ last' = [op |-> op, arg |-> arg, ret |-> w.ret,
                killed |-> w.killed, notified |-> w.notified,
                on_suspend |-> w.on_suspend, hw |-> w.hw, ev |-> w.ev, rej |-> w.rej]

\* a pa_assert of the handler failed: the process is aborted where it stands
Aborted(op, arg) ==
    /\ UNCHANGED <<source, output>>
    /\ last' = [op |-> op, arg |-> arg, ret |-> "ABORT",
                killed |-> {}, notified |-> {}, on_suspend |-> {}, hw |-> <<>>, ev |-> <<>>,
           rej |-> "none"]

volvars == <<now, volume_changes, volume_changes_tail, current_hw_volume, vol_log>>
portvars == <<call, msg, impl>>
movevars == <<core>>
rewindvars == <<input>>
treevars == <<tree, budget>>
auxvars == <<mixer, latstate, group, capture>>

\* (uint64_t) -1 in underrun_for: the stream has not played since it was
\* created or uncorked
NoUnderrun == 0 - 1

\* pa_sink_input_new: the thread_info fields of a new sink input
NewInput == [state |-> "RUNNING", read_index |-> 0, write_index |-> 0,
             playing_for |-> 0, rewrite_nbytes |-> 0,
             rewrite_flush |-> FALSE, dont_rewind_render |-> FALSE,
             drained |-> 1, underrun_for |-> NoUnderrun, underrun_for_sink |-> 0]

InitRewindIdle == input = NewInput

\* no source and no source output of the tree was created
NoTree == <<>>
\* a budget that bounds nothing
Unbounded == 0 - 1
InitTreeIdle == tree = NoTree /\ budget = Unbounded

\* no path set was probed, no latency was requested, no sync group was made
NoMixer == <<>>
NoLatency == <<>>
NoGroup == <<>>
NoCapture == <<>>
InitAuxIdle ==
    mixer = NoMixer /\ latstate = NoLatency /\ group = NoGroup /\ capture = NoCapture

\* a call of the life-cycle specification
\* (oc names a call that was made: a rejection that is never reached is the
\* same call as oc = 0)
LifeApply(op, arg, call_w, oc) ==
    /\ last.ret # "ABORT"
    /\ \E w \in {call_w} :
          /\ oc <= w.k /\ 0 - oc <= w.k
          /\ Apply(op, arg, w)
    /\ UNCHANGED <<volvars, portvars, movevars, rewindvars, treevars, auxvars>>

Put ==
    \E oc \in OutcomeSeqs :
        LifeApply("put", <<>>, pa_source_put(Work(source, output), oc), oc)

\* a call of the life-cycle specification whose failed assertion is kept as
\* the outcome "ABORT"
LifeCall(op, arg, call_w, oc) ==
    /\ last.ret # "ABORT"
    /\ \E w \in {call_w} :
          /\ oc <= w.k /\ 0 - oc <= w.k
          /\ IF w.abort THEN Aborted(op, arg) ELSE Apply(op, arg, w)
    /\ UNCHANGED <<volvars, portvars, movevars, rewindvars, treevars, auxvars>>

Suspend ==
    \E suspend \in BOOLEAN, cause \in LifeCauses, oc \in OutcomeSeqs :
        LifeCall("suspend", <<suspend, cause>>,
              pa_source_suspend(Work(source, output), suspend, cause, oc), oc)

UpdateStatus ==
    \E oc \in OutcomeSeqs :
        LifeApply("update_status", <<>>, pa_source_update_status(Work(source, output), oc), oc)

\* the rates asked of pa_source_update_rate: the two configured ones and one
\* below the lower limit
Rates == {DefaultRate, AlternateRate, RateMin \div 2}

UpdateRate ==
    /\ PA_SOURCE_IS_LINKED(source.state)
    /\ \E rate \in Rates, passthrough \in BOOLEAN, cb_ok \in BOOLEAN, oc \in OutcomeSeqs :
        \E w \in {pa_source_update_rate(Work(source, output), rate, passthrough, cb_ok, oc)} :
            (cb_ok \/ w.cb) /\ LifeApply("update_rate", <<>>, w, oc)

SyncSuspend ==
    \E sink_state \in {"SUSPENDED", "IDLE"}, oc \in OutcomeSeqs :
        LifeApply("sync_suspend", <<>>,
              pa_source_sync_suspend(Work(source, output), sink_state, oc), oc)

OutputNew ==
    \E o \in Outputs, cb_ok \in BOOLEAN, oc \in OutcomeSeqs :
        /\ output[o].state = "NONE"
        /\ \E w \in {pa_source_output_new(Work(source, output), o, cb_ok, oc)} :
               (cb_ok \/ w.cb) /\ LifeApply("output_new", <<>>, w, oc)

OutputPut ==
    \E o \in Outputs, oc \in OutcomeSeqs :
        LifeApply("output_put", <<>>, pa_source_output_put(Work(source, output), o, oc), oc)

OutputCork ==
    \E o \in Outputs, b \in BOOLEAN, cb_ok \in BOOLEAN, oc \in OutcomeSeqs :
        \E w \in {pa_source_output_cork(Work(source, output), o, b, cb_ok, oc)} :
            (cb_ok \/ w.cb) /\ LifeApply("output_cork", <<>>, w, oc)

OutputUnlink ==
    \E o \in Outputs, oc \in OutcomeSeqs :
        /\ output[o].state \notin {"NONE", "UNLINKED"}
        /\ LifeApply("output_unlink", <<>>,
                 pa_source_output_unlink(Work(source, output), o, oc), oc)

\* pa_source_unlink, in any state of the source
Unlink ==
    \E oc \in OutcomeSeqs :
        LifeCall("unlink", <<>>, pa_source_unlink(Work(source, output), oc), oc)

LifeNext ==
    \/ Put \/ Suspend \/ UpdateStatus \/ UpdateRate \/ SyncSuspend
    \/ OutputNew \/ OutputPut \/ OutputCork \/ OutputUnlink \/ Unlink

-----------------------------------------------------------------------------
(***************************************************************************)
(* SpecVol: the deferred hardware-volume queue of the IO thread.           *)
(* A volume is the pa_cvolume_avg() of a hardware volume in tenths of      *)
(* PA_VOLUME_NORM.  The clock starts at SafetyMargin, so that the          *)
(* unsigned nc->at - safety_margin does not wrap.                          *)
(***************************************************************************)
Volumes == {2, 3, 6}

\* vol_log: committed_at is the scheduled time of the change committed
\* last (0: none yet); applied is the number of changes the last apply call
\* committed and written what it passed to s->write_volume(); pushed is the
\* run of up to three <<volume, latency, clock>> pushed, starting from an
\* empty list, at one reading of the clock and of the latency with no
\* apply or flush in between
NoVolLog == [committed_at |-> 0, applied |-> 0, written |-> <<>>, pushed |-> <<>>]

\* the backwards scan of pa_source_volume_change_push from entry i of q:
\* the index of the entry c the loop stops at (0: c == NULL) and nc->at
RECURSIVE ScanBack(_, _, _, _)
ScanBack(q, i, at, hw) ==
    IF i = 0 THEN [c |-> 0, at |-> at]
    ELSE IF hw > q[i].hw_volume
         THEN IF at + SafetyMargin > q[i].at
              THEN [c |-> i, at |-> at + SafetyMargin]
              ELSE ScanBack(q, i - 1, at, hw)
         ELSE IF at - SafetyMargin > q[i].at
              THEN [c |-> i, at |-> at - SafetyMargin]
              ELSE ScanBack(q, i - 1, at, hw)

\* volume_changes_tail: NULL, or the change it points to
NoChange == <<>>

\* the place in the list q of the change volume_changes_tail points to, where
\* the backwards scan of pa_source_volume_change_push starts (0: NULL)
TailPos(q, tail) ==
    IF tail = NoChange \/ ~\E i \in DOMAIN q : q[i] = tail[1] THEN 0
    ELSE CHOOSE i \in DOMAIN q : q[i] = tail[1]

\* pa_source_volume_change_push: the change nc it inserts and leaves in
\* volume_changes_tail
PushedChange(q, cur, hw, latency, clock) ==
    LET at == latency + clock + ExtraDelay
        r  == ScanBack(q, Len(q), at, hw)
    IN  [at |-> IF r.c # 0 THEN r.at
                ELSE IF hw > cur THEN at + SafetyMargin ELSE at - SafetyMargin,
         hw_volume |-> hw]

\* pa_source_volume_change_push without the removal of the entries that
\* follow the new one
push_KeepLater(q, cur, hw, latency, clock) ==
    IF q = <<>> /\ hw = cur THEN q
    ELSE
    LET at == latency + clock + ExtraDelay
        r  == ScanBack(q, Len(q), at, hw)
    IN  IF r.c = 0
        THEN <<[at |-> IF hw > cur THEN at + SafetyMargin ELSE at - SafetyMargin,
                hw_volume |-> hw]>> \o q
        ELSE SubSeq(q, 1, r.c) \o <<[at |-> r.at, hw_volume |-> hw]>>
                 \o SubSeq(q, r.c + 1, Len(q))

\* pa_source_volume_change_push without the early schedule of a volume
\* that goes down
push_AlwaysLate(q, cur, hw, latency, clock) ==
    IF q = <<>> /\ hw = cur THEN q
    ELSE
    LET at == latency + clock + ExtraDelay
        r  == ScanBack(q, Len(q), at, hw)
    IN  IF r.c = 0
        THEN <<[at |-> at + SafetyMargin, hw_volume |-> hw]>>
        ELSE SubSeq(q, 1, r.c) \o <<[at |-> r.at, hw_volume |-> hw]>>

\* pa_source_volume_change_push: the new list, for the new hardware volume
\* hw (real_volume / soft_volume) and the latency and clock read by the call
pa_source_volume_change_push(q, cur, hw, latency, clock) ==
    IF q = <<>> /\ hw = cur THEN q
    ELSE
    LET at == latency + clock + ExtraDelay
        r  == ScanBack(q, Len(q), at, hw)
    IN  IF r.c = 0
        THEN <<[at |-> IF hw > cur THEN at + SafetyMargin ELSE at - SafetyMargin,
                hw_volume |-> hw]>>
        ELSE SubSeq(q, 1, r.c) \o <<[at |-> r.at, hw_volume |-> hw]>>

\* the number of entries the loop of pa_source_volume_change_apply removes
RECURSIVE Due(_, _)
Due(q, clock) ==
    IF q # <<>> /\ clock >= Head(q).at THEN 1 + Due(Tail(q), clock) ELSE 0

\* pa_source_volume_change_apply that commits one change per call
apply_OnlyHead(q, cur, state, clock) ==
    IF q = <<>> \/ ~PA_SOURCE_IS_LINKED(state)
    THEN [volume_changes |-> q, current_hw_volume |-> cur, ret |-> FALSE, written |-> <<>>]
    ELSE
    LET n == IF clock >= Head(q).at THEN 1 ELSE 0
        hw == IF n > 0 THEN q[n].hw_volume ELSE cur
    IN  [volume_changes |-> SubSeq(q, n + 1, Len(q)),
         current_hw_volume |-> hw,
         ret |-> n > 0,
         written |-> IF n > 0 THEN <<hw>> ELSE <<>>]

\* pa_source_volume_change_apply
pa_source_volume_change_apply(q, cur, state, clock) ==
    IF q = <<>> \/ ~PA_SOURCE_IS_LINKED(state)
    THEN [volume_changes |-> q, current_hw_volume |-> cur, ret |-> FALSE, written |-> <<>>]
    ELSE
    LET n == Due(q, clock)
        hw == IF n > 0 THEN q[n].hw_volume ELSE cur
    IN  [volume_changes |-> SubSeq(q, n + 1, Len(q)),
         current_hw_volume |-> hw,
         ret |-> n > 0,
         written |-> IF n > 0 THEN <<hw>> ELSE <<>>]

\* a linked source without streams
LinkedSource ==
    pa_source_put(Work(NewSource([monitor_of |-> FALSE, update_rate |-> TRUE,
                                  suspend_cause |-> {}]),
                       [o \in Outputs |-> NoOutput]), 0).s

\* the devices of the move specification: one hardware device and two
\* filter devices
Devices == {"d1", "d2", "d3"}

\* a core whose devices have no stream
NoCore ==
    [device |-> [d \in Devices |-> [master |-> 0, others |-> 0]],
     stream |-> [o \in Outputs |->
                    [device |-> "d1", dont_move |-> FALSE, direct_on_input |-> FALSE,
                     sync_prev |-> 0, sync_next |-> 0, passthrough |-> FALSE]]]

\* no pa_source_set_port call has been made
NoPortCall == [pc |-> "idle", name |-> "NULL", save |-> FALSE]
NoMsg == [state |-> "none", port |-> "NULL", ret |-> "OK"]

InitPortIdle ==
    /\ call = NoPortCall
    /\ msg = NoMsg
    /\ impl = [port |-> "p1", hook_fired |-> FALSE]
    /\ core = NoCore

InitVolIdle ==
    /\ now = SafetyMargin
    /\ volume_changes = <<>>
    /\ volume_changes_tail = NoChange
    /\ current_hw_volume = 3
    /\ vol_log = NoVolLog

InitVol ==
    /\ InitPortIdle
    /\ source = LinkedSource
    /\ output = [o \in Outputs |-> NoOutput]
    /\ last = NoCall
    /\ now = SafetyMargin
    /\ volume_changes = <<>>
    /\ volume_changes_tail = NoChange
    /\ current_hw_volume \in Volumes
    /\ vol_log = NoVolLog
    /\ InitRewindIdle /\ InitTreeIdle /\ InitAuxIdle

\* the clock advances
VolTick ==
    /\ now < MaxTime
    /\ now' = now + 1
    /\ vol_log' = vol_log
    /\ last' = [NoCall EXCEPT !.op = "tick"]
    /\ UNCHANGED <<source, output, volume_changes, volume_changes_tail,
                   current_hw_volume, portvars, movevars, rewindvars, treevars, auxvars>>

\* PA_SOURCE_MESSAGE_SET_VOLUME_SYNCED on a source with deferred volume
VolumeChangePush ==
    \E hw \in Volumes, latency \in 0..MaxLatency :
        LET seen == SubSeq(volume_changes, 1, TailPos(volume_changes, volume_changes_tail))
            q == pa_source_volume_change_push(seen, current_hw_volume, hw, latency, now)
            continues == /\ Len(vol_log.pushed) \in 1..2
                         /\ vol_log.pushed[1][2] = latency
                         /\ vol_log.pushed[1][3] = now
        IN  /\ volume_changes' = q
            /\ volume_changes_tail' =
                   IF volume_changes = <<>> /\ hw = current_hw_volume
                   THEN volume_changes_tail
                   ELSE <<PushedChange(seen, current_hw_volume, hw, latency, now)>>
            /\ vol_log' = [vol_log EXCEPT !.pushed =
                               IF continues THEN Append(@, <<hw, latency, now>>)
                               ELSE IF volume_changes = <<>>
                               THEN << <<hw, latency, now>> >>
                               ELSE <<>>]
            /\ last' = [op |-> "volume_change_push", arg |-> <<hw, latency>>,
                        ret |-> IF q = volume_changes THEN "NOCHANGE" ELSE "OK"]
            /\ UNCHANGED <<source, output, now, current_hw_volume, portvars, movevars, rewindvars, treevars, auxvars>>

\* one iteration of the IO thread: pa_source_volume_change_apply
VolumeChangeApply ==
    LET r == pa_source_volume_change_apply(volume_changes, current_hw_volume,
                                           source.state, now)
        n == Len(volume_changes) - Len(r.volume_changes)
    IN  /\ volume_changes' = r.volume_changes
        /\ volume_changes_tail' =
               IF volume_changes = <<>> \/ ~PA_SOURCE_IS_LINKED(source.state)
               THEN volume_changes_tail
               ELSE IF r.volume_changes # <<>> THEN volume_changes_tail ELSE NoChange
        /\ current_hw_volume' = r.current_hw_volume
        /\ vol_log' = [committed_at |-> IF n > 0 THEN volume_changes[n].at
                                        ELSE vol_log.committed_at,
                       applied |-> n,
                       written |-> r.written,
                       pushed |-> <<>>]
        /\ last' = [op |-> "volume_change_apply", arg |-> <<>>,
                    ret |-> IF r.ret THEN "TRUE" ELSE "FALSE"]
        /\ UNCHANGED <<source, output, now, portvars, movevars, rewindvars, treevars, auxvars>>

\* PA_SOURCE_MESSAGE_GET_VOLUME on a source with deferred volume: the list is
\* flushed and the volume read back from the hardware becomes the current one
VolumeChangeFlush ==
    \E hw \in Volumes :
        /\ volume_changes' = <<>>
        /\ volume_changes_tail' = NoChange
        /\ current_hw_volume' = hw
        /\ vol_log' = [vol_log EXCEPT !.pushed = <<>>]
        /\ last' = [op |-> "volume_change_flush", arg |-> <<hw>>, ret |-> "OK"]
        /\ UNCHANGED <<source, output, now, portvars, movevars, rewindvars, treevars, auxvars>>

\* the control thread unlinks the source
VolUnlink ==
    /\ source.state # "UNLINKED"
    /\ Apply("unlink", <<>>, pa_source_unlink(Work(source, output), 0))
    /\ vol_log' = [vol_log EXCEPT !.pushed = <<>>]
    /\ UNCHANGED <<now, volume_changes, volume_changes_tail, current_hw_volume,
                   portvars, movevars, rewindvars, treevars, auxvars>>

VolNext ==
    \/ VolTick \/ VolumeChangePush \/ VolumeChangeApply \/ VolumeChangeFlush
    \/ VolUnlink

-----------------------------------------------------------------------------
(***************************************************************************)
(* SpecPort: pa_source_set_port.  With PA_SOURCE_DEFERRED_VOLUME the       *)
(* control thread sends PA_SOURCE_MESSAGE_SET_PORT and waits for the IO    *)
(* thread, which runs the implementor's set_port callback.                 *)
(***************************************************************************)
\* the names pa_source_set_port is called with: the ports, a name that is
\* not in s->ports, and no name
PortNames == Ports \cup {"nosuch", "NULL"}

\* pa_source_set_latency_offset
pa_source_set_latency_offset(s, offset) ==
    [s EXCEPT !.latency_offset = offset, !.thread_info.latency_offset = offset]

\* pa_source_set_port that does not look the name up in s->ports
set_port_begin_NoLookup(s, name, save) ==
    IF ~s.has_set_port THEN [s |-> s, ret |-> "NOTIMPLEMENTED"]
    ELSE IF s.active_port = name
         THEN [s |-> [s EXCEPT !.save_port = @ \/ save], ret |-> "OK"]
    ELSE [s |-> s, ret |-> "CALL"]

\* pa_source_set_port up to the call of the implementor: ret is "CALL" when
\* the implementor's set_port is to run for the port
pa_source_set_port_begin(s, name, save) ==
    IF ~s.has_set_port THEN [s |-> s, ret |-> "NOTIMPLEMENTED"]
    ELSE IF name = "NULL" THEN [s |-> s, ret |-> "NOENTITY"]
    ELSE IF name \notin Ports THEN [s |-> s, ret |-> "NOENTITY"]
    ELSE IF s.active_port = name
         THEN [s |-> [s EXCEPT !.save_port = @ \/ save], ret |-> "OK"]
    ELSE [s |-> s, ret |-> "CALL"]

\* pa_source_set_port that takes the port over whatever the implementor
\* returned
set_port_end_IgnoreRet(s, port, save, ret) ==
    [s |-> [s EXCEPT !.active_port = port, !.save_port = save],
     ret |-> "OK", hook_fired |-> TRUE]

\* pa_source_set_port from the implementor's return value ret on
pa_source_set_port_end(s, port, save, ret) ==
    IF ret # "OK" THEN [s |-> s, ret |-> "NOENTITY", hook_fired |-> FALSE]
    ELSE [s |-> [s EXCEPT !.active_port = port, !.save_port = save],
          ret |-> "OK", hook_fired |-> TRUE]

\* the implementor's set_port callback: cb_ret is what it returns; the
\* hardware is on the port when it returns success
ImplSetPort(h, port, cb_ret) ==
    IF cb_ret = "OK" THEN [h EXCEPT !.port = port] ELSE h

\* pa_asyncmsgq_send() returns when the IO thread has handled the message
pa_asyncmsgq_send_returned == msg.state = "done"

InitPort ==
    /\ \E active \in Ports, flags \in {<<TRUE, TRUE>>, <<FALSE, TRUE>>, <<FALSE, FALSE>>} :
          /\ source = [LinkedSource EXCEPT
                           !.active_port = active,
                           !.latency_offset = PortLatencyOffset(active),
                           !.thread_info.latency_offset = PortLatencyOffset(active),
                           !.deferred_volume = flags[1],
                           !.has_set_port = flags[2]]
          /\ impl = [port |-> active, hook_fired |-> FALSE]
    /\ output = [o \in Outputs |-> NoOutput]
    /\ last = NoCall
    /\ call = NoPortCall
    /\ msg = NoMsg
    /\ core = NoCore
    /\ InitVolIdle
    /\ InitRewindIdle /\ InitTreeIdle /\ InitAuxIdle

\* pa_source_set_port(s, name, save) is called: it returns at once, or runs
\* the implementor's set_port itself, or sends SET_PORT and waits
SetPortCall ==
    /\ call.pc = "idle"
    /\ \E name \in PortNames, save \in BOOLEAN, cb_ret \in {"OK", "FAIL"} :
          LET b == pa_source_set_port_begin(source, name, save)
              e == pa_source_set_port_end(b.s, name, save, cb_ret)
          IN  IF b.ret # "CALL"
              THEN /\ source' = b.s
                   /\ last' = [op |-> "set_port", arg |-> <<name, save>>, ret |-> b.ret]
                   /\ impl' = [impl EXCEPT !.hook_fired = FALSE]
                   /\ UNCHANGED <<call, msg>>
              ELSE IF source.deferred_volume
              THEN /\ call' = [pc |-> "wait", name |-> name, save |-> save]
                   /\ msg' = [state |-> "sent", port |-> name, ret |-> "OK"]
                   /\ last' = [op |-> "set_port_send", arg |-> <<name, save>>, ret |-> "OK"]
                   /\ impl' = [impl EXCEPT !.hook_fired = FALSE]
                   /\ UNCHANGED source
              ELSE /\ source' = e.s
                   /\ impl' = [ImplSetPort(impl, name, cb_ret) EXCEPT !.hook_fired = e.hook_fired]
                   /\ last' = [op |-> "set_port", arg |-> <<name, save, cb_ret>>,
                               ret |-> e.ret]
                   /\ UNCHANGED <<call, msg>>
    /\ UNCHANGED <<output, volvars, movevars, rewindvars, treevars, auxvars>>

\* the IO thread handles PA_SOURCE_MESSAGE_SET_PORT
HandleSetPort ==
    /\ msg.state = "sent"
    /\ \E cb_ret \in {"OK", "FAIL"} :
          /\ msg' = [msg EXCEPT !.state = "done",
                                !.ret = IF source.has_set_port THEN cb_ret ELSE @]
          /\ impl' = IF source.has_set_port THEN ImplSetPort(impl, msg.port, cb_ret) ELSE impl
    /\ last' = [op |-> "handle_set_port", arg |-> <<msg.port>>, ret |-> "OK"]
    /\ UNCHANGED <<source, output, call, volvars, movevars, rewindvars, treevars, auxvars>>

\* pa_asyncmsgq_send has returned: pa_source_set_port goes on with msg.ret
SetPortReturn ==
    /\ call.pc = "wait"
    /\ pa_asyncmsgq_send_returned
    /\ LET e == pa_source_set_port_end(source, call.name, call.save, msg.ret)
       IN  /\ source' = e.s
           /\ impl' = [impl EXCEPT !.hook_fired = e.hook_fired]
           /\ last' = [op |-> "set_port", arg |-> <<call.name, call.save>>, ret |-> e.ret]
    /\ call' = [call EXCEPT !.pc = "idle"]
    /\ UNCHANGED <<output, msg, volvars, movevars, rewindvars, treevars, auxvars>>

\* pa_source_set_latency_offset(s, offset) is called
SetLatencyOffset ==
    /\ call.pc = "idle"
    /\ \E p \in Ports :
          /\ source' = pa_source_set_latency_offset(source, PortLatencyOffset(p))
          /\ last' = [op |-> "set_latency_offset", arg |-> <<PortLatencyOffset(p)>>,
                      ret |-> "OK"]
    /\ UNCHANGED <<output, call, msg, impl, volvars, movevars, rewindvars, treevars, auxvars>>

PortNext ==
    \/ SetPortCall \/ HandleSetPort \/ SetPortReturn \/ SetLatencyOffset

-----------------------------------------------------------------------------
(***************************************************************************)
(* SpecMove: pa_source_output_may_move_to and pa_sink_input_may_move_to.   *)
(* core.device[d] is a pa_source with its output_from_master (or a pa_sink *)
(* with its input_to_master): master is that stream, 0 for none, and       *)
(* others the number of attached streams that are not among Outputs.       *)
(* core.stream[o] is a linked pa_source_output (or pa_sink_input) with the *)
(* device it is attached to.  The same graph is read from both sides.      *)
(***************************************************************************)
\* pa_idxset_size(dest->outputs), pa_idxset_size(dest->inputs)
NStreams(c, d) ==
    Cardinality({o \in DOMAIN c.stream : c.stream[o].device = d}) + c.device[d].others

\* pa_source_output_may_move
pa_source_output_may_move(c, o) ==
    IF c.stream[o].dont_move THEN FALSE
    ELSE IF c.stream[o].direct_on_input THEN FALSE
    ELSE TRUE

\* find_filter_source_output
RECURSIVE find_filter_source_output(_, _, _)
find_filter_source_output(c, target, s) ==
    IF s = "NULL" THEN FALSE
    ELSE IF c.device[s].master = 0 THEN FALSE
    ELSE IF c.device[s].master = target THEN TRUE
    ELSE find_filter_source_output(c, target, c.stream[c.device[s].master].device)

\* pa_source_output_may_move_to without the search for a cycle
source_may_move_to_NoCycleCheck(c, o, dest, cb) ==
    IF dest = c.stream[o].device THEN TRUE
    ELSE IF ~pa_source_output_may_move(c, o) THEN FALSE
    ELSE IF NStreams(c, dest) >= MaxOutputsPerSource THEN FALSE
    ELSE cb

\* pa_source_output_may_move_to; cb is what o->may_move_to returns
pa_source_output_may_move_to(c, o, dest, cb) ==
    IF dest = c.stream[o].device THEN TRUE
    ELSE IF ~pa_source_output_may_move(c, o) THEN FALSE
    ELSE IF find_filter_source_output(c, o, dest) THEN FALSE
    ELSE IF NStreams(c, dest) >= MaxOutputsPerSource THEN FALSE
    ELSE cb

\* pa_sink_input_may_move that does not look at the sync group
may_move_IgnoresSync(c, i) ==
    ~c.stream[i].dont_move

\* pa_sink_input_may_move; sync_prev and sync_next are 0 for NULL
pa_sink_input_may_move(c, i) ==
    IF c.stream[i].dont_move THEN FALSE
    ELSE IF c.stream[i].sync_next # 0 \/ c.stream[i].sync_prev # 0 THEN FALSE
    ELSE TRUE

\* find_filter_sink_input
RECURSIVE find_filter_sink_input(_, _, _)
find_filter_sink_input(c, target, s) ==
    IF c.device[s].master = 0 THEN FALSE
    ELSE IF c.device[s].master = target THEN TRUE
    ELSE find_filter_sink_input(c, target, c.stream[c.device[s].master].device)

\* pa_sink_is_passthrough: the sink has one input and it is a passthrough one
pa_sink_is_passthrough(c, s) ==
    /\ NStreams(c, s) = 1
    /\ \E i \in DOMAIN c.stream : c.stream[i].device = s /\ c.stream[i].passthrough

\* check_passthrough_connection that looks at the mode of the sink only
check_passthrough_OnlyBusySink(c, passthrough, dest) ==
    ~pa_sink_is_passthrough(c, dest)

\* check_passthrough_connection: TRUE for PA_OK
check_passthrough_connection(c, passthrough, dest) ==
    IF pa_sink_is_passthrough(c, dest) THEN FALSE
    ELSE IF NStreams(c, dest) > 0 /\ passthrough THEN FALSE
    ELSE TRUE

\* pa_sink_input_may_move_to; cb is what i->may_move_to returns
pa_sink_input_may_move_to(c, i, dest, cb) ==
    IF dest = c.stream[i].device THEN TRUE
    ELSE IF ~pa_sink_input_may_move(c, i) THEN FALSE
    ELSE IF find_filter_sink_input(c, i, dest) THEN FALSE
    ELSE IF NStreams(c, dest) >= MaxInputsPerSink THEN FALSE
    ELSE IF ~check_passthrough_connection(c, c.stream[i].passthrough, dest) THEN FALSE
    ELSE cb

\* the device a filter device records from (plays to): the device of its
\* master stream
MasterDevice(c, d) == c.stream[c.device[d].master].device

\* the devices met on the way from d through the master streams, d included
RECURSIVE ChainDevices(_, _, _)
ChainDevices(c, seen, n) ==
    IF n = 0 THEN seen
    ELSE ChainDevices(c, seen \cup {MasterDevice(c, d) :
                                      d \in {x \in seen : c.device[x].master # 0}}, n - 1)

\* no filter device is, through the master streams, its own master, and no
\* stream is the master stream of two devices
WellFormed(c) ==
    /\ \A d \in Devices :
          c.device[d].master # 0
              => d \notin ChainDevices(c, {MasterDevice(c, d)}, Cardinality(Devices))
    /\ \A d, e \in Devices :
          (d # e /\ c.device[d].master # 0) => c.device[d].master # c.device[e].master

\* what sets one stream apart, if any; the sync partner of a stream is a
\* stream that is not among Outputs
StreamMarks == {"none", "DONT_MOVE", "direct_on_input", "sync", "passthrough"}

InitMove ==
    /\ \E master \in [Devices -> Outputs \cup {0}],
          dev \in [Outputs -> Devices],
          marked \in Outputs, mark \in StreamMarks,
          crowded \in BOOLEAN :
          /\ mark = "none" => marked = 1
          /\ core = [device |-> [d \in Devices |->
                                    [master |-> master[d],
                                     others |-> IF crowded /\ d = "d3"
                                                THEN MaxOutputsPerSource - 1 ELSE 0]],
                     stream |-> [o \in Outputs |->
                                    [device |-> dev[o],
                                     dont_move |-> (o = marked /\ mark = "DONT_MOVE"),
                                     direct_on_input |-> (o = marked /\ mark = "direct_on_input"),
                                     sync_prev |-> 0,
                                     sync_next |-> IF o = marked /\ mark = "sync"
                                                   THEN NOutputs + 1 ELSE 0,
                                     passthrough |-> (o = marked /\ mark = "passthrough")]]]
          /\ WellFormed(core)
    /\ source = LinkedSource
    /\ output = [o \in Outputs |-> NoOutput]
    /\ last = NoCall
    /\ InitVolIdle
    /\ call = NoPortCall
    /\ msg = NoMsg
    /\ impl = [port |-> "p1", hook_fired |-> FALSE]
    /\ InitRewindIdle /\ InitTreeIdle /\ InitAuxIdle

\* pa_source_output_may_move_to(o, dest) is called
SourceOutputMayMoveTo ==
    /\ \E o \in Outputs, dest \in Devices, cb \in BOOLEAN :
          last' = [op |-> "source_output_may_move_to", arg |-> <<o, dest, cb>>,
                   ret |-> IF pa_source_output_may_move_to(core, o, dest, cb)
                           THEN "TRUE" ELSE "FALSE"]
    /\ UNCHANGED <<source, output, core, volvars, portvars, rewindvars, treevars, auxvars>>

\* pa_sink_input_may_move_to(i, dest) is called
SinkInputMayMoveTo ==
    /\ \E i \in Outputs, dest \in Devices, cb \in BOOLEAN :
          last' = [op |-> "sink_input_may_move_to", arg |-> <<i, dest, cb>>,
                   ret |-> IF pa_sink_input_may_move_to(core, i, dest, cb)
                           THEN "TRUE" ELSE "FALSE"]
    /\ UNCHANGED <<source, output, core, volvars, portvars, rewindvars, treevars, auxvars>>

MoveNext ==
    \/ SourceOutputMayMoveTo \/ SinkInputMayMoveTo

-----------------------------------------------------------------------------
-----------------------------------------------------------------------------
(***************************************************************************)
(* SpecRewind: the rewind protocol of one linked sink input, in the IO     *)
(* thread.  The render queue is its read and write index (the stream has   *)
(* no resampler and frames of one byte); a size_t is 8 bits wide, so that  *)
(* (size_t) -1 is SizeMax.  arg of the last call holds the numbers of the  *)
(* call: <<nbytes, amount given to the implementor's process_rewind>>.     *)
(***************************************************************************)
SizeMax == 255

\* pa_memblockq_get_length
pa_memblockq_get_length(i) ==
    IF i.write_index <= i.read_index THEN 0 ELSE i.write_index - i.read_index

Min(a, b) == IF a < b THEN a ELSE b
Max(a, b) == IF a > b THEN a ELSE b

\* pa_sink_input_process_rewind without the test of dont_rewind_render
process_rewind_AlwaysRewindRender(i, nbytes) ==
    [i |-> [i EXCEPT !.read_index = @ - nbytes,
                     !.rewrite_nbytes = 0, !.rewrite_flush = FALSE,
                     !.dont_rewind_render = FALSE],
     amount |-> 0]

\* pa_sink_input_process_rewind that clears the request only after it told
\* the implementor to rewrite
process_rewind_ClearsAfterRewrite(i, nbytes) ==
    LET lbq == pa_memblockq_get_length(i)
        i1 == IF nbytes > 0 /\ ~i.dont_rewind_render
              THEN [i EXCEPT !.read_index = @ - nbytes] ELSE i
        max_rewrite == (nbytes + lbq) % (SizeMax + 1)
        amount == IF i.rewrite_nbytes = SizeMax THEN 0
                  ELSE Min(i.rewrite_nbytes, max_rewrite)
        i2 == IF i.rewrite_nbytes = SizeMax
              THEN [i1 EXCEPT !.write_index = i1.read_index]
              ELSE [i1 EXCEPT !.write_index = @ - amount]
    IN  [i |-> IF amount > 0
               THEN [i2 EXCEPT !.rewrite_nbytes = 0, !.rewrite_flush = FALSE,
                               !.dont_rewind_render = FALSE]
               ELSE i2,
         amount |-> amount]

\* pa_sink_input_process_rewind; amount is what i->process_rewind is given
pa_sink_input_process_rewind(i, nbytes) ==
    LET lbq == pa_memblockq_get_length(i)
        \* pa_memblockq_rewind
        i1 == IF nbytes > 0 /\ ~i.dont_rewind_render
              THEN [i EXCEPT !.read_index = @ - nbytes] ELSE i
        max_rewrite == (nbytes + lbq) % (SizeMax + 1)
        amount == IF i.rewrite_nbytes = SizeMax THEN 0
                  ELSE Min(i.rewrite_nbytes, max_rewrite)
        i2 == IF i.rewrite_nbytes = SizeMax
              \* pa_memblockq_flush_write
              THEN [i1 EXCEPT !.write_index = i1.read_index]
              \* pa_memblockq_seek(-amount, PA_SEEK_RELATIVE)
              ELSE [i1 EXCEPT !.write_index = @ - amount]
    IN  [i |-> [i2 EXCEPT !.rewrite_nbytes = 0, !.rewrite_flush = FALSE,
                          !.dont_rewind_render = FALSE],
         amount |-> amount]

\* pa_sink_input_request_rewind that does not look at playing_for
request_rewind_NoCap(i, n, rewrite, flush, dont_rewind_render) ==
    IF i.state = "CORKED" THEN i
    ELSE
    LET nbytes0 == Max(i.rewrite_nbytes, n)
        lbq == IF rewrite THEN pa_memblockq_get_length(i) ELSE 0
        nbytes1 == IF nbytes0 <= 0 THEN MaxRewind + lbq ELSE nbytes0
    IN  [i EXCEPT !.rewrite_nbytes = IF i.rewrite_nbytes = SizeMax THEN SizeMax
                                     ELSE IF rewrite THEN nbytes1 ELSE SizeMax,
                  !.rewrite_flush = @ \/ flush,
                  !.dont_rewind_render = @ \/ dont_rewind_render]

\* pa_sink_input_request_rewind; the caller keeps its assertions
\* (rewrite || flush, !dont_rewind_render || !rewrite)
pa_sink_input_request_rewind(i, n, rewrite, flush, dont_rewind_render) ==
    IF i.state = "CORKED" THEN i
    ELSE
    LET nbytes0 == Max(i.rewrite_nbytes, n)
        lbq == IF rewrite THEN pa_memblockq_get_length(i) ELSE 0
        nbytes1 == IF nbytes0 <= 0 THEN MaxRewind + lbq ELSE nbytes0
        nbytes2 == IF rewrite /\ nbytes1 > i.playing_for THEN i.playing_for ELSE nbytes1
    IN  [i EXCEPT !.rewrite_nbytes = IF i.rewrite_nbytes = SizeMax THEN SizeMax
                                     ELSE IF rewrite THEN nbytes2 ELSE SizeMax,
                  !.rewrite_flush = @ \/ flush,
                  !.dont_rewind_render = @ \/ dont_rewind_render]

\* pa_sink_input_request_rewind made no call of pa_sink_request_rewind
NoSinkRewind == 0 - 1

\* pa_sink_input_request_rewind: the amount it calls pa_sink_request_rewind
\* with
sink_request_rewind(i, n, rewrite) ==
    IF i.state = "CORKED" THEN NoSinkRewind
    ELSE
    LET nbytes0 == Max(i.rewrite_nbytes, n)
        lbq == IF rewrite THEN pa_memblockq_get_length(i) ELSE 0
        nbytes1 == IF nbytes0 <= 0 THEN MaxRewind + lbq ELSE nbytes0
        nbytes2 == IF i.rewrite_nbytes # SizeMax /\ rewrite /\ nbytes1 > i.playing_for
                   THEN i.playing_for ELSE nbytes1
    IN  IF nbytes2 = SizeMax THEN NoSinkRewind
        ELSE IF nbytes2 > lbq THEN nbytes2 - lbq ELSE 0

\* pa_sink_input_set_state_within_thread that sets the corked state before
\* it requests the rewind
set_state_CorkedFirst(i, state) ==
    IF state = i.state THEN i
    ELSE IF state = "CORKED"
    THEN pa_sink_input_request_rewind([i EXCEPT !.state = state], 0, TRUE, TRUE, FALSE)
    ELSE pa_sink_input_request_rewind(
             [i EXCEPT !.underrun_for = NoUnderrun, !.underrun_for_sink = 0,
                       !.playing_for = 0, !.state = state], 0, FALSE, TRUE, TRUE)

\* pa_sink_input_set_state_within_thread between RUNNING and CORKED
pa_sink_input_set_state_within_thread(i, state) ==
    IF state = i.state THEN i
    ELSE IF state = "CORKED"
    THEN [pa_sink_input_request_rewind(i, 0, TRUE, TRUE, FALSE) EXCEPT !.state = state]
    ELSE pa_sink_input_request_rewind(
             [i EXCEPT !.underrun_for = NoUnderrun, !.underrun_for_sink = 0,
                       !.playing_for = 0, !.state = state], 0, FALSE, TRUE, TRUE)

\* pa_sink_input_peek that does not count the underrun
peek_NoUnderrunCount(i, slength, popped) ==
    IF pa_memblockq_get_length(i) > 0 THEN i
    ELSE IF i.state = "CORKED" \/ popped = 0
    THEN [i EXCEPT !.drained = 1,
                   !.write_index = Max(@, i.read_index) + slength, !.playing_for = 0]
    ELSE [i EXCEPT !.drained = 0,
                   !.underrun_for = 0, !.underrun_for_sink = 0,
                   !.write_index = Max(@, i.read_index) + popped,
                   !.playing_for = @ + popped]

\* pa_sink_input_peek of slength bytes when the render queue has nothing to
\* read: popped is the length the implementor's pop gave (0: pop failed)
pa_sink_input_peek(i, slength, popped) ==
    IF pa_memblockq_get_length(i) > 0 THEN i
    ELSE IF i.state = "CORKED" \/ popped = 0
    THEN [i EXCEPT !.drained = 1,
                   !.write_index = Max(@, i.read_index) + slength, !.playing_for = 0,
                   !.underrun_for = IF @ # NoUnderrun THEN @ + slength ELSE @,
                   !.underrun_for_sink = IF i.underrun_for # NoUnderrun
                                         THEN @ + slength ELSE @]
    ELSE [i EXCEPT !.drained = 0,
                   !.underrun_for = 0, !.underrun_for_sink = 0,
                   !.write_index = Max(@, i.read_index) + popped,
                   !.playing_for = @ + popped]

\* the greatest amount pa_sink_input_request_rewind was called with since
\* the last pa_sink_input_process_rewind, as a record of the calls
Requested(l) == IF "requested" \in DOMAIN l THEN l.requested ELSE 0

\* sink: what the call asked of pa_sink_request_rewind
RewindCallSink(op, arg, sink) ==
    /\ last' = [op |-> op, arg |-> arg, ret |-> "OK",
                killed |-> {}, notified |-> {}, on_suspend |-> {},
                requested |-> IF op = "process_rewind" THEN 0
                              ELSE IF op = "request_rewind"
                              THEN Max(Requested(last), arg[1])
                              ELSE Requested(last),
                sink_rewind |-> sink]
    /\ UNCHANGED <<source, output, volvars, portvars, movevars, treevars, auxvars>>

RewindCall(op, arg) == RewindCallSink(op, arg, NoSinkRewind)

InputPeek ==
    \E slength \in 1..2, popped \in 0..2 :
        /\ Max(input.write_index, input.read_index) + 2 <= MaxIndex
        /\ input.playing_for + popped <= MaxIndex
        /\ input.underrun_for + slength <= MaxIndex
        /\ input' = pa_sink_input_peek(input, slength, popped)
        /\ RewindCall("peek", <<slength, popped>>)

\* pa_sink_input_drop of what was peeked
InputDrop ==
    \E nbytes \in 1..2 :
        /\ nbytes <= pa_memblockq_get_length(input)
        /\ input' = [input EXCEPT !.read_index = @ + nbytes]
        /\ RewindCall("drop", <<nbytes>>)

InputRequestRewind ==
    \E n \in 0..MaxRewind, rewrite \in BOOLEAN, flush \in BOOLEAN, dont \in BOOLEAN :
        /\ rewrite \/ flush
        /\ ~dont \/ ~rewrite
        /\ input' = pa_sink_input_request_rewind(input, n, rewrite, flush, dont)
        /\ RewindCallSink("request_rewind", <<n, rewrite>>,
                          sink_request_rewind(input, n, rewrite))

InputSetState ==
    \E state \in {"RUNNING", "CORKED"} :
        /\ input' = pa_sink_input_set_state_within_thread(input, state)
        /\ RewindCallSink("set_state", <<state>>,
                          IF state = input.state THEN NoSinkRewind
                          ELSE IF state = "CORKED" THEN sink_request_rewind(input, 0, TRUE)
                          ELSE sink_request_rewind([input EXCEPT !.state = state], 0, FALSE))

\* pa_sink_process_rewind of the sink: it rewound nbytes <= max_rewind
InputProcessRewind ==
    \E nbytes \in 0..MaxRewind :
        /\ input.read_index - nbytes >= -MaxIndex
        /\ \E r \in {pa_sink_input_process_rewind(input, nbytes)} :
              /\ r.i.write_index >= -MaxIndex
              /\ input' = r.i
              /\ RewindCall("process_rewind", <<nbytes, r.amount>>)

InitRewind ==
    /\ source = LinkedSource
    /\ output = [o \in Outputs |-> NoOutput]
    /\ last = NoCall
    /\ InitVolIdle /\ InitPortIdle /\ InitTreeIdle /\ InitAuxIdle
    /\ input = NewInput

RewindNext ==
    \/ InputPeek \/ InputDrop \/ InputRequestRewind \/ InputSetState
    \/ InputProcessRewind

(***************************************************************************)
(* SpecRoute and SpecFlat: the tree of sources and source outputs, with    *)
(* filter sources that share the volume of their master, stream moves and  *)
(* flat volumes.  tree.device[d] is a pa_source, tree.stream[o] a          *)
(* pa_source_output, tree.queue the pa_queue of pa_source_move_all_start.  *)
(* `master` is s->output_from_master (0 for none), `device` is o->source   *)
(* ("NULL" while the stream is moved or unlinked).  A pa_cvolume is a      *)
(* tuple of Channels volumes; all channel maps are equal, so               *)
(* pa_cvolume_remap is the identity.  Streams are not corked, not          *)
(* passthrough and have the sample spec of the sources; volume_factor is   *)
(* PA_VOLUME_NORM.                                                         *)
(***************************************************************************)
TreeDevices == {"d1", "d2", "f1", "f2"}
TreeStreams == {1, 2, 3}

\* volumes in tenths of PA_VOLUME_NORM
PA_VOLUME_NORM == 10
PA_VOLUME_MUTED == 0
Channels == 2
ByChannel(F(_)) == <<F(1), F(2)>>
\* a value computed once and named: F(x)
Bind(x, F(_)) == F(x)
CVolume(v) == ByChannel(LAMBDA c : v)
Norm == CVolume(PA_VOLUME_NORM)

\* pa_sw_volume_multiply and pa_sw_volume_divide: the product and the
\* quotient of the linear factors, rounded to the nearest volume
pa_sw_volume_multiply(a, b) ==
    (2 * a * b + PA_VOLUME_NORM) \div (2 * PA_VOLUME_NORM)
pa_sw_volume_divide(a, b) ==
    IF b <= PA_VOLUME_MUTED THEN PA_VOLUME_MUTED
    ELSE (2 * a * PA_VOLUME_NORM + b) \div (2 * b)

pa_sw_cvolume_multiply(a, b) == ByChannel(LAMBDA c : pa_sw_volume_multiply(a[c], b[c]))
pa_cvolume_merge(a, b) == ByChannel(LAMBDA c : Max(a[c], b[c]))

\* the sources and the source outputs by name and by index, each
\* constructed in full
ByDevice(F(_)) == [d1 |-> F("d1"), d2 |-> F("d2"), f1 |-> F("f1"), f2 |-> F("f2")]
ByStream(F(_)) == <<F(1), F(2), F(3)>>

\* a source that was not created, and a new hardware source
NoDevice ==
    [linked |-> FALSE, flat |-> FALSE, share |-> FALSE, master |-> 0, others |-> 0,
     outputs |-> {}, ti_outputs |-> {}, state |-> "IDLE",
     reference_volume |-> Norm, real_volume |-> Norm,
     soft_volume |-> Norm, ti_soft_volume |-> Norm]
HwDevice(flat, v) ==
    [NoDevice EXCEPT !.linked = TRUE, !.flat = flat,
                     !.reference_volume = v, !.real_volume = v,
                     !.soft_volume = v, !.ti_soft_volume = v]

\* a source output that was not created
NoStream ==
    [state |-> "NONE", device |-> "NULL", destination_source |-> "NULL",
     attached |-> FALSE, dont_move |-> FALSE, direct_on_input |-> FALSE,
     sync |-> FALSE, passthrough |-> FALSE,
     volume |-> Norm, reference_ratio |-> Norm, real_ratio |-> Norm,
     soft_volume |-> Norm, ti_soft_volume |-> Norm]

\* the working record of a handler on the tree: ev is the sequence of hooks,
\* callbacks and calls the handler made, ret its return value, abort that an
\* assertion of the code failed
TreeWork(g) == [device |-> g.device, stream |-> g.stream, queue |-> g.queue,
                ev |-> <<>>, ret |-> "OK", abort |-> FALSE]

\* o->destination_source is a source that shares the volume of its master
FeedsSharing(w, o) ==
    /\ w.stream[o].destination_source # "NULL"
    /\ w.device[w.stream[o].destination_source].share

\* pa_source_get_master; "NULL" when a master stream on the way has no
\* source, "LOOP" when the walk comes back to a source it has left (the loop
\* of the code would not end)
RECURSIVE get_master_from(_, _, _)
get_master_from(w, s, seen) ==
    IF s = "NULL" THEN "NULL"
    ELSE IF ~w.device[s].share THEN s
    ELSE IF w.device[s].master = 0 THEN "NULL"
    ELSE IF s \in seen THEN "LOOP"
    ELSE get_master_from(w, w.stream[w.device[s].master].device, seen \cup {s})

pa_source_get_master(w, s) == get_master_from(w, s, {})

\* pa_source_flat_volume_enabled
pa_source_flat_volume_enabled(w, s) ==
    LET root == pa_source_get_master(w, s)
    IN  IF root \in TreeDevices THEN w.device[root].flat ELSE FALSE

\* the sources the recursive volume functions visit from s: s and, through
\* the outputs of a visited source that feed a sharing source, that source
RECURSIVE SourcesUnder(_, _, _)
SourcesUnder(w, seen, n) ==
    LET more == {w.stream[o].destination_source :
                    o \in {x \in TreeStreams :
                              /\ \E d \in seen : x \in w.device[d].outputs
                              /\ FeedsSharing(w, x)}}
    IN  IF n = 0 \/ more \subseteq seen THEN seen
        ELSE SourcesUnder(w, seen \cup more, n - 1)

\* the same walk in the IO thread, through s->thread_info.outputs
RECURSIVE SourcesUnderIO(_, _, _)
SourcesUnderIO(w, seen, n) ==
    LET more == {w.stream[o].destination_source :
                    o \in {x \in TreeStreams :
                              /\ \E d \in seen : x \in w.device[d].ti_outputs
                              /\ FeedsSharing(w, x)}}
    IN  IF n = 0 \/ more \subseteq seen THEN seen
        ELSE SourcesUnderIO(w, seen \cup more, n - 1)

Under(w, s) == SourcesUnder(w, {s}, Cardinality(TreeDevices))
UnderIO(w, s) == SourcesUnderIO(w, {s}, Cardinality(TreeDevices))

\* the outputs of the sources under s, and those that are regular streams
OutputsUnder(w, s) == UNION {w.device[d].outputs : d \in Under(w, s)}
RegularUnder(w, s) == {o \in OutputsUnder(w, s) : ~FeedsSharing(w, o)}

\* compute_reference_ratio: the new o->reference_ratio
compute_reference_ratio(w, o) ==
    LET remapped == w.device[w.stream[o].device].reference_volume
        rr == w.stream[o].reference_ratio
        volume == w.stream[o].volume
    IN  ByChannel(LAMBDA c :
            IF remapped[c] <= PA_VOLUME_MUTED THEN rr[c]
            ELSE IF pa_sw_volume_multiply(rr[c], remapped[c]) = volume[c] THEN rr[c]
            ELSE pa_sw_volume_divide(volume[c], remapped[c]))

\* compute_reference_ratios
compute_reference_ratios(w, s) ==
    [w EXCEPT !.stream = ByStream(LAMBDA o :
        IF o \in OutputsUnder(w, s)
        THEN [w.stream[o] EXCEPT !.reference_ratio = compute_reference_ratio(w, o)]
        ELSE w.stream[o])]

\* compute_real_ratios without the division: the real ratio is kept
compute_real_ratios_KeepRatio(w, s) ==
    [w EXCEPT !.stream = ByStream(LAMBDA o :
        IF o \notin OutputsUnder(w, s) THEN w.stream[o]
        ELSE [w.stream[o] EXCEPT !.soft_volume =
                  pa_sw_cvolume_multiply(w.stream[o].real_ratio, Norm)])]

\* compute_real_ratios
compute_real_ratios(w, s) ==
    [w EXCEPT !.stream = ByStream(LAMBDA o :
        IF o \notin OutputsUnder(w, s) THEN w.stream[o]
        ELSE IF FeedsSharing(w, o)
        THEN [w.stream[o] EXCEPT !.real_ratio = Norm, !.soft_volume = Norm]
        ELSE
        LET remapped == w.device[w.stream[o].device].real_volume
            old == w.stream[o].real_ratio
            volume == w.stream[o].volume
            real_ratio == ByChannel(LAMBDA c :
                IF remapped[c] <= PA_VOLUME_MUTED THEN old[c]
                ELSE IF pa_sw_volume_multiply(old[c], remapped[c]) # volume[c]
                THEN pa_sw_volume_divide(volume[c], remapped[c])
                ELSE old[c])
        IN  [w.stream[o] EXCEPT
                 !.real_ratio = real_ratio,
                 !.soft_volume = ByChannel(LAMBDA c :
                     IF remapped[c] <= PA_VOLUME_MUTED THEN PA_VOLUME_MUTED
                     ELSE pa_sw_volume_multiply(real_ratio[c], Norm[c]))])]

\* the largest element of a set of volumes (PA_VOLUME_MUTED for none)
SetMax(S) == IF S = {} THEN PA_VOLUME_MUTED ELSE CHOOSE x \in S : \A y \in S : y <= x

\* get_maximum_output_volume on a muted max_volume
get_maximum_output_volume(w, s) ==
    ByChannel(LAMBDA c : SetMax({w.stream[o].volume[c] : o \in RegularUnder(w, s)}))

\* has_outputs
has_outputs(w, s) == RegularUnder(w, s) # {}

\* update_real_volume
update_real_volume(w, s, new_volume) ==
    LET under == Under(w, s)
        w1 == [w EXCEPT !.device = ByDevice(LAMBDA d :
                   IF d \in under THEN [w.device[d] EXCEPT !.real_volume = new_volume]
                   ELSE w.device[d])]
        follows == {o \in OutputsUnder(w, s) :
                       /\ FeedsSharing(w, o)
                       /\ pa_source_flat_volume_enabled(w, w.stream[o].device)}
        w2 == [w1 EXCEPT !.stream = ByStream(LAMBDA o :
                   IF o \in follows THEN [w1.stream[o] EXCEPT !.volume = new_volume]
                   ELSE w1.stream[o])]
    IN  [w2 EXCEPT !.stream = ByStream(LAMBDA o :
            IF o \in follows
            THEN [w2.stream[o] EXCEPT !.reference_ratio = compute_reference_ratio(w2, o)]
            ELSE w2.stream[o])]

\* compute_real_volume
compute_real_volume(w, s) ==
    IF ~has_outputs(w, s)
    THEN update_real_volume(w, s, w.device[s].reference_volume)
    ELSE compute_real_ratios(
             update_real_volume(w, s, get_maximum_output_volume(w, s)), s)

\* propagate_reference_volume
propagate_reference_volume(w, s) ==
    [w EXCEPT !.stream = ByStream(LAMBDA o :
        IF o \in RegularUnder(w, s)
        THEN [w.stream[o] EXCEPT !.volume =
                 pa_sw_cvolume_multiply(w.device[w.stream[o].device].reference_volume,
                                        w.stream[o].reference_ratio)]
        ELSE w.stream[o])]

\* update_reference_volume; ret is "TRUE" when a reference volume may have
\* changed
update_reference_volume(w, s, v) ==
    IF v = w.device[s].reference_volume /\ ~w.device[s].share
    THEN [w EXCEPT !.ret = "FALSE"]
    ELSE LET under == Under(w, s)
         IN  [w EXCEPT !.device = ByDevice(LAMBDA d :
                           IF d \in under THEN [w.device[d] EXCEPT !.reference_volume = v]
                           ELSE w.device[d]),
                       !.ret = "TRUE"]

\* sync_output_volumes_within_thread and, before it, the copy of
\* s->soft_volume of PA_SOURCE_MESSAGE_SET_VOLUME, for s and the sources
\* under it: set_shared_volume_within_thread
set_shared_volume_within_thread(w, s) ==
    LET under == UnderIO(w, s)
        synced == UNION {w.device[d].ti_outputs : d \in under}
    IN  [w EXCEPT !.device = ByDevice(LAMBDA d :
                      IF d \in under
                      THEN [w.device[d] EXCEPT !.ti_soft_volume = w.device[d].soft_volume]
                      ELSE w.device[d]),
                  !.stream = ByStream(LAMBDA o :
                      IF o \in synced
                      THEN [w.stream[o] EXCEPT !.ti_soft_volume = w.stream[o].soft_volume]
                      ELSE w.stream[o])]

\* PA_SOURCE_MESSAGE_SET_SHARED_VOLUME in the IO thread
msg_SET_SHARED_VOLUME(w, s) ==
    LET root_source == pa_source_get_master(w, s)
    IN  IF root_source \in TreeDevices
        THEN set_shared_volume_within_thread(w, root_source)
        ELSE w

\* PA_SOURCE_MESSAGE_ADD_OUTPUT in the IO thread
msg_ADD_OUTPUT(w, s, o) ==
    msg_SET_SHARED_VOLUME(
        [w EXCEPT !.device[s].ti_outputs = @ \cup {o},
                  !.stream[o].attached = TRUE,
                  !.abort = @ \/ w.stream[o].attached], s)

\* PA_SOURCE_MESSAGE_REMOVE_OUTPUT that leaves o in s->thread_info.outputs
msg_REMOVE_OUTPUT_KeepsOutput(w, s, o) ==
    msg_SET_SHARED_VOLUME(
        [w EXCEPT !.stream[o].attached = FALSE,
                  !.abort = @ \/ ~w.stream[o].attached], s)

\* PA_SOURCE_MESSAGE_REMOVE_OUTPUT in the IO thread
msg_REMOVE_OUTPUT(w, s, o) ==
    msg_SET_SHARED_VOLUME(
        [w EXCEPT !.device[s].ti_outputs = @ \ {o},
                  !.stream[o].attached = FALSE,
                  !.abort = @ \/ ~w.stream[o].attached], s)

\* the volume argument NULL of pa_source_set_volume
NullVolume == <<>>

\* pa_source_set_volume; volume is NullVolume or a pa_cvolume.  The sources
\* have no set_volume callback: the soft volume becomes the real volume.
pa_source_set_volume(w, s, volume, send_msg) ==
    Bind(pa_source_get_master(w, s), LAMBDA root_source :
    IF root_source \notin TreeDevices THEN w
    ELSE
    Bind(IF volume # NullVolume
         THEN Bind(update_reference_volume(w, root_source, volume), LAMBDA u :
                  IF u.ret # "TRUE" THEN u
                  ELSE IF pa_source_flat_volume_enabled(u, root_source)
                  THEN compute_real_volume(
                           propagate_reference_volume(u, root_source), root_source)
                  ELSE update_real_volume(u, root_source,
                                          u.device[root_source].reference_volume))
         ELSE Bind(compute_real_volume(w, root_source), LAMBDA c :
                  compute_reference_ratios(
                      update_reference_volume(
                          c, root_source,
                          pa_cvolume_merge(c.device[s].reference_volume,
                                           c.device[root_source].real_volume)),
                      root_source)),
         LAMBDA w1 :
    Bind([w1 EXCEPT !.device[root_source].soft_volume =
                        w1.device[root_source].real_volume,
                    !.ret = w.ret],
         LAMBDA w2 :
    IF send_msg THEN msg_SET_SHARED_VOLUME(w2, root_source) ELSE w2)))

-----------------------------------------------------------------------------
Ev(w, name, o) == [w EXCEPT !.ev = Append(@, <<name, o>>)]
TreeAssert(w, cond) == IF cond THEN w ELSE [w EXCEPT !.abort = TRUE]
TreeLinked(w, o) == w.stream[o].state = "RUNNING"

\* pa_source_update_status on a source that is not suspended
tree_update_status(w, s) ==
    [w EXCEPT !.device[s].state = IF w.device[s].outputs # {} THEN "RUNNING" ELSE "IDLE"]

\* set_real_ratio
set_real_ratio(w, o, v) ==
    [w EXCEPT !.stream[o].real_ratio = v,
              !.stream[o].soft_volume = pa_sw_cvolume_multiply(v, Norm)]

\* pa_source_output_new: the new stream o on source s, with data->volume,
\* data->volume_is_absolute and data->destination_source
tree_output_new(w, o, s, volume, absolute, dest) ==
    [w EXCEPT !.stream[o] =
                 [NoStream EXCEPT
                      !.state = "INIT", !.device = s, !.destination_source = dest,
                      !.volume = IF ~absolute /\ pa_source_flat_volume_enabled(w, s)
                                 THEN pa_sw_cvolume_multiply(volume,
                                                             w.device[s].reference_volume)
                                 ELSE volume,
                      !.reference_ratio = volume],
              !.device[s].outputs = @ \cup {o}]

\* pa_source_output_put
tree_output_put(w, o) ==
    LET s == w.stream[o].device
        w1 == [TreeAssert(w, w.stream[o].state = "INIT") EXCEPT !.stream[o].state = "RUNNING"]
        w2 == IF pa_source_flat_volume_enabled(w1, s)
              THEN pa_source_set_volume(w1, s, NullVolume, FALSE)
              ELSE set_real_ratio(
                       TreeAssert(w1, FeedsSharing(w1, o) =>
                                          /\ w1.stream[o].volume = Norm
                                          /\ w1.stream[o].reference_ratio = Norm),
                       o, w1.stream[o].volume)
    IN  Bind(w2, LAMBDA w3 :
            tree_update_status(
                msg_ADD_OUTPUT(
                    [w3 EXCEPT !.stream[o].ti_soft_volume = w3.stream[o].soft_volume],
                    s, o), s))

\* pa_source_output_unlink that sends no message to the IO thread
unlink_NoRemoveMessage(w, o) ==
    IF w.stream[o].device = "NULL" THEN [w EXCEPT !.stream[o].state = "UNLINKED"]
    ELSE [tree_update_status(
              [w EXCEPT !.device[w.stream[o].device].outputs = @ \ {o}],
              w.stream[o].device)
          EXCEPT !.stream[o].state = "UNLINKED", !.stream[o].device = "NULL"]

\* pa_source_output_unlink
tree_output_unlink(w, o) ==
    LET s == w.stream[o].device
        linked == TreeLinked(w, o)
        w1 == IF s # "NULL" THEN [w EXCEPT !.device[s].outputs = @ \ {o}] ELSE w
        w2 == [w1 EXCEPT !.stream[o].state = "UNLINKED"]
        w3 == IF linked /\ s # "NULL"
              THEN msg_REMOVE_OUTPUT(
                       IF pa_source_flat_volume_enabled(w2, s)
                       THEN pa_source_set_volume(w2, s, NullVolume, FALSE)
                       ELSE w2, s, o)
              ELSE w2
    IN  Bind(w3, LAMBDA u :
            IF s # "NULL"
            THEN [tree_update_status(u, s) EXCEPT !.stream[o].device = "NULL"]
            ELSE u)

\* pa_source_output_kill: o->kill(o) of the implementor unlinks the stream
tree_output_kill(w, o) ==
    IF ~TreeLinked(w, o) THEN TreeAssert(w, FALSE)
    ELSE tree_output_unlink(Ev(w, "kill", o), o)

\* pa_source_output_set_volume of a stream with a source and a writable
\* volume
tree_output_set_volume(w, o, volume, absolute) ==
    LET s == w.stream[o].device
        v == IF ~absolute /\ pa_source_flat_volume_enabled(w, s)
             THEN pa_sw_cvolume_multiply(w.device[s].reference_volume, volume)
             ELSE volume
    IN  IF v = w.stream[o].volume THEN w
        ELSE
        LET w1 == [w EXCEPT !.stream[o].volume = v]
        IN  IF pa_source_flat_volume_enabled(w1, s)
            THEN pa_source_set_volume(w1, s, NullVolume, TRUE)
            ELSE Bind(set_real_ratio(w1, o, v), LAMBDA w2 :
                     \* PA_SOURCE_OUTPUT_MESSAGE_SET_SOFT_VOLUME
                     [w2 EXCEPT !.stream[o].ti_soft_volume = w2.stream[o].soft_volume])

\* pa_source_output_start_move that does not clear o->source
start_move_KeepsSource(w, o, hook_ok) ==
    IF ~TreeLinked(w, o) \/ w.stream[o].device = "NULL" THEN TreeAssert(w, FALSE)
    ELSE IF ~pa_source_output_may_move(w, o) THEN [w EXCEPT !.ret = "NOTSUPPORTED"]
    ELSE IF ~hook_ok THEN [Ev(w, "MOVE_START", o) EXCEPT !.ret = "FAIL"]
    ELSE [tree_update_status(
              msg_REMOVE_OUTPUT(
                  [Ev(w, "MOVE_START", o)
                      EXCEPT !.device[w.stream[o].device].outputs = @ \ {o}],
                  w.stream[o].device, o),
              w.stream[o].device) EXCEPT !.ret = "OK"]

\* pa_source_output_start_move; hook_ok: the MOVE_START hook does not refuse
tree_output_start_move(w, o, hook_ok) ==
    IF ~TreeLinked(w, o) \/ w.stream[o].device = "NULL" THEN TreeAssert(w, FALSE)
    ELSE IF ~pa_source_output_may_move(w, o) THEN [w EXCEPT !.ret = "NOTSUPPORTED"]
    ELSE IF ~hook_ok THEN [Ev(w, "MOVE_START", o) EXCEPT !.ret = "FAIL"]
    ELSE
    LET origin == w.stream[o].device
        w1 == [Ev(w, "MOVE_START", o) EXCEPT !.device[origin].outputs = @ \ {o}]
        w2 == IF pa_source_flat_volume_enabled(w1, origin)
              THEN pa_source_set_volume(w1, origin, NullVolume, FALSE)
              ELSE w1
        w3 == tree_update_status(msg_REMOVE_OUTPUT(w2, origin, o), origin)
    IN  [w3 EXCEPT !.stream[o].device = "NULL", !.ret = "OK"]

\* update_volume_due_to_moving; n bounds the depth of the recursion by the
\* number of sources
RECURSIVE update_volume_due_to_moving(_, _, _, _)
RECURSIVE update_volume_of_outputs(_, _, _, _)
update_volume_of_outputs(w, todo, dest, n) ==
    IF todo = {} THEN w
    ELSE LET x == First(todo)
         IN  update_volume_of_outputs(update_volume_due_to_moving(w, x, dest, n),
                                      todo \ {x}, dest, n)

\* update_volume_due_to_moving that leaves the volume of the stream alone
update_volume_due_to_moving_KeepVolume(w, o, dest, n) ==
    IF w.stream[o].device = dest /\ pa_source_flat_volume_enabled(w, dest)
    THEN pa_source_set_volume(w, dest, NullVolume, FALSE)
    ELSE w

update_volume_due_to_moving(w, o, dest, n) ==
    LET s == w.stream[o].device
        flat == pa_source_flat_volume_enabled(w, s)
        root_source == pa_source_get_master(w, s)
        d == w.stream[o].destination_source
        finish(x) == IF x.stream[o].device = dest
                        /\ pa_source_flat_volume_enabled(x, x.stream[o].device)
                     THEN pa_source_set_volume(x, x.stream[o].device, NullVolume, FALSE)
                     ELSE x
    IN  IF n = 0 THEN TreeAssert(w, FALSE)
        ELSE IF FeedsSharing(w, o)
        THEN IF root_source \notin TreeDevices THEN w
             ELSE
             LET w1 == IF flat THEN w
                       ELSE [w EXCEPT !.stream[o].volume = Norm,
                                      !.stream[o].reference_ratio = Norm]
                 w2 == TreeAssert(w1, /\ w1.stream[o].real_ratio = Norm
                                      /\ w1.stream[o].soft_volume = Norm
                                      /\ w1.device[d].soft_volume = Norm)
                 w3 == [w2 EXCEPT !.device[d].reference_volume =
                                      w2.device[root_source].reference_volume,
                                  !.device[d].real_volume =
                                      w2.device[root_source].real_volume]
             IN  finish(update_volume_of_outputs(w3, w3.device[d].outputs, dest, n - 1))
        ELSE
        LET rr == w.stream[o].reference_ratio
        IN  finish(IF flat
                   THEN [w EXCEPT !.stream[o].volume =
                            pa_sw_cvolume_multiply(w.device[s].reference_volume, rr)]
                   ELSE [w EXCEPT !.stream[o].volume = rr,
                                  !.stream[o].real_ratio = rr,
                                  !.stream[o].soft_volume = pa_sw_cvolume_multiply(rr, Norm)])

\* pa_source_output_finish_move; cb is what o->may_move_to returns
tree_output_finish_move(w, o, dest, cb) ==
    IF ~TreeLinked(w, o) \/ w.stream[o].device # "NULL" THEN TreeAssert(w, FALSE)
    ELSE IF ~pa_source_output_may_move_to(w, o, dest, cb)
    THEN [w EXCEPT !.ret = "NOTSUPPORTED"]
    ELSE
    LET w1 == [Ev(w, "moving", o) EXCEPT !.stream[o].device = dest,
                                         !.device[dest].outputs = @ \cup {o}]
        w2 == update_volume_due_to_moving(tree_update_status(w1, dest), o, dest,
                                          Cardinality(TreeDevices))
    IN  [Ev(msg_ADD_OUTPUT(w2, dest, o), "MOVE_FINISH", o) EXCEPT !.ret = "OK"]

\* pa_source_output_fail_move; hook_stop: a MOVE_FAIL hook returns
\* PA_HOOK_STOP (it has taken the stream over)
tree_output_fail_move(w, o, hook_stop) ==
    IF ~TreeLinked(w, o) \/ w.stream[o].device # "NULL" THEN TreeAssert(w, FALSE)
    ELSE LET w1 == Ev(Ev(w, "fail_move", o), "MOVE_FAIL", o)
         IN  IF hook_stop THEN w1
             ELSE tree_output_kill(Ev(w1, "moving_NULL", o), o)

\* pa_source_output_move_to that calls fail_move on every error
move_to_AlwaysFailMove(w, o, dest, cb1, hook_ok, cb2, hook_stop) ==
    IF dest = w.stream[o].device THEN [w EXCEPT !.ret = "OK"]
    ELSE Bind(tree_output_start_move(w, o, hook_ok), LAMBDA s :
             IF s.ret # "OK" \/ s.abort THEN s
             ELSE Bind(tree_output_finish_move(s, o, dest, cb1 /\ cb2), LAMBDA f :
                      IF f.ret # "OK"
                      THEN [tree_output_fail_move(f, o, hook_stop) EXCEPT !.ret = f.ret]
                      ELSE f))

\* pa_source_output_move_to; cb1 and cb2 are what o->may_move_to returns to
\* pa_source_output_move_to and to pa_source_output_finish_move
tree_output_move_to(w, o, dest, cb1, hook_ok, cb2, hook_stop) ==
    IF ~TreeLinked(w, o) \/ w.stream[o].device = "NULL" THEN TreeAssert(w, FALSE)
    ELSE IF dest = w.stream[o].device THEN [w EXCEPT !.ret = "OK"]
    ELSE IF ~pa_source_output_may_move_to(w, o, dest, cb1)
    THEN [w EXCEPT !.ret = "NOTSUPPORTED"]
    ELSE Bind(tree_output_start_move(w, o, hook_ok), LAMBDA s :
             IF s.ret # "OK" \/ s.abort THEN s
             ELSE Bind(tree_output_finish_move(s, o, dest, cb2), LAMBDA f :
                      IF f.ret # "OK"
                      THEN [tree_output_fail_move(f, o, hook_stop) EXCEPT !.ret = f.ret]
                      ELSE f))

\* pa_source_move_all_start: the loop over s->outputs; veto are the streams
\* whose MOVE_START hook refuses
RECURSIVE move_all_start(_, _, _)
move_all_start(w, todo, veto) ==
    IF todo = {} \/ w.abort THEN w
    ELSE LET o == First(todo)
         IN  Bind(tree_output_start_move(w, o, o \notin veto), LAMBDA s :
                 move_all_start(
                     IF s.ret = "OK" THEN [s EXCEPT !.queue = Append(@, o)] ELSE s,
                     todo \ {o}, veto))

\* pa_source_move_all_finish without the call of pa_source_output_fail_move
RECURSIVE move_all_finish_NoFailMove(_, _, _, _)
move_all_finish_NoFailMove(w, s, veto, hook_stop) ==
    IF w.queue = <<>> \/ w.abort THEN w
    ELSE LET o == Head(w.queue)
             f == tree_output_finish_move([w EXCEPT !.queue = Tail(@)], o, s, o \notin veto)
         IN  move_all_finish_NoFailMove(f, s, veto, hook_stop)

\* pa_source_move_all_finish; veto are the streams whose may_move_to
\* callback refuses
RECURSIVE pa_source_move_all_finish(_, _, _, _)
pa_source_move_all_finish(w, s, veto, hook_stop) ==
    IF w.queue = <<>> \/ w.abort THEN w
    ELSE LET o == Head(w.queue)
         IN  Bind(tree_output_finish_move([w EXCEPT !.queue = Tail(@)], o, s, o \notin veto),
                  LAMBDA f :
                 pa_source_move_all_finish(
                     IF f.ret # "OK" THEN tree_output_fail_move(f, o, hook_stop) ELSE f,
                     s, veto, hook_stop))

\* pa_source_move_all_fail
RECURSIVE pa_source_move_all_fail(_, _)
pa_source_move_all_fail(w, hook_stop) ==
    IF w.queue = <<>> \/ w.abort THEN w
    ELSE pa_source_move_all_fail(
             tree_output_fail_move([w EXCEPT !.queue = Tail(@)], Head(w.queue), hook_stop),
             hook_stop)

\* pa_source_post: the streams pa_source_output_push is called on
pa_source_post(w, s) ==
    {o \in w.device[s].ti_outputs : ~w.stream[o].direct_on_input}

\* a filter module creates the source f that shares the volume of its
\* master, with the master stream o on source s: pa_source_new,
\* pa_source_output_new, s->output_from_master = o, pa_source_put,
\* pa_source_output_put
filter_new(w, f, o, s) ==
    LET w1 == tree_output_new(w, o, s, Norm, FALSE, f)
        w2 == [w1 EXCEPT !.device[f] = [NoDevice EXCEPT !.share = TRUE, !.master = o]]
        root_source == pa_source_get_master(w2, f)
        w3 == TreeAssert(w2, root_source \in TreeDevices)
        w4 == IF w3.abort THEN w3
              ELSE [w3 EXCEPT !.device[f].linked = TRUE,
                              !.device[f].reference_volume =
                                  w3.device[root_source].reference_volume,
                              !.device[f].real_volume = w3.device[root_source].real_volume]
    IN  tree_output_put(w4, o)

-----------------------------------------------------------------------------
\* a call on the tree has returned (or, with ret "ABORT", an assertion of it
\* has failed)
TreeApply(op, arg, w) ==
    /\ tree' = [device |-> w.device, stream |-> w.stream, queue |-> w.queue]
    /\ last' = [op |-> op, arg |-> arg, ev |-> w.ev, delivered |-> {},
                ret |-> IF w.abort THEN "ABORT" ELSE w.ret]
    /\ budget' = IF budget > 0 THEN budget - 1 ELSE budget
    /\ UNCHANGED <<source, output, volvars, portvars, movevars, rewindvars, auxvars>>

\* no call is made after a failed assertion, between
\* pa_source_move_all_start and pa_source_move_all_finish or _fail, and when
\* the budget of the run is spent
TreeIdle == last.ret # "ABORT" /\ tree.queue = <<>> /\ budget # 0

LinkedDevices == {d \in TreeDevices : tree.device[d].linked}
LinkedStreams == {o \in TreeStreams : tree.stream[o].state = "RUNNING"}
AttachedStreams == {o \in LinkedStreams : tree.stream[o].device # "NULL"}
MovingStreams == {o \in LinkedStreams : tree.stream[o].device = "NULL"}

\* pa_source_output_new and pa_source_output_put of a regular stream
StreamNew(volumes, absolutes) ==
    /\ TreeIdle
    /\ \E o \in TreeStreams, s \in LinkedDevices, volume \in volumes,
          absolute \in absolutes :
          /\ tree.stream[o].state = "NONE"
          /\ \A x \in TreeStreams : tree.stream[x].state = "NONE" => o <= x
          /\ TreeApply("new", <<o, s, volume, absolute>>,
                 tree_output_put(
                     tree_output_new(TreeWork(tree), o, s, volume, absolute, "NULL"), o))

\* a filter source is loaded on source s
FilterNew ==
    /\ TreeIdle
    /\ \E f \in {"f1", "f2"}, o \in TreeStreams, s \in LinkedDevices :
          /\ ~tree.device[f].linked /\ tree.device[f].master = 0
          /\ f = "f2" => tree.device["f1"].master # 0
          /\ pa_source_get_master(tree, s) # "NULL"
          /\ tree.stream[o].state = "NONE"
          /\ \A x \in TreeStreams : x < o => tree.stream[x].state # "NONE"
          /\ TreeApply("filter_new", <<f, o, s>>, filter_new(TreeWork(tree), f, o, s))

StreamUnlink ==
    /\ TreeIdle
    /\ \E o \in LinkedStreams :
          TreeApply("unlink", <<o, tree.stream[o].device>>,
                    tree_output_unlink(TreeWork(tree), o))

StreamSetVolume(volumes, absolutes) ==
    /\ TreeIdle
    /\ \E o \in AttachedStreams, volume \in volumes, absolute \in absolutes :
          /\ ~FeedsSharing(tree, o)
          /\ TreeApply("output_set_volume", <<o, volume, absolute>>,
                 tree_output_set_volume(TreeWork(tree), o, volume, absolute))

DeviceSetVolume(volumes) ==
    /\ TreeIdle
    /\ \E s \in LinkedDevices, volume \in volumes :
          TreeApply("set_volume", <<s, volume>>,
              pa_source_set_volume(TreeWork(tree), s, volume, TRUE))

MoveTo(cbs) ==
    /\ TreeIdle
    /\ \E o \in AttachedStreams, dest \in LinkedDevices,
          cb1 \in cbs, hook_ok \in cbs, cb2 \in cbs, hook_stop \in BOOLEAN :
          /\ (~cb1 \/ ~hook_ok) => (cb2 /\ ~hook_stop)
          /\ cb2 => ~hook_stop
          /\ dest = tree.stream[o].device => (cb1 /\ hook_ok /\ cb2)
          /\ TreeApply("move_to",
                       <<o, dest, cb1, hook_ok, cb2, hook_stop, tree.stream[o].device>>,
                 tree_output_move_to(TreeWork(tree), o, dest, cb1, hook_ok, cb2, hook_stop))

StartMove ==
    /\ TreeIdle
    /\ \E o \in AttachedStreams :
          TreeApply("start_move", <<o, tree.stream[o].device>>,
                    tree_output_start_move(TreeWork(tree), o, TRUE))

FinishMove(cbs) ==
    /\ TreeIdle
    /\ \E o \in MovingStreams, dest \in LinkedDevices, cb \in cbs :
          TreeApply("finish_move", <<o, dest>>,
              tree_output_finish_move(TreeWork(tree), o, dest, cb))

FailMove ==
    /\ TreeIdle
    /\ \E o \in MovingStreams, hook_stop \in BOOLEAN :
          TreeApply("fail_move", <<o>>, tree_output_fail_move(TreeWork(tree), o, hook_stop))

MoveAllStart ==
    /\ TreeIdle
    /\ \E s \in LinkedDevices, veto \in SUBSET TreeStreams :
          /\ veto \subseteq tree.device[s].outputs
          /\ tree.device[s].outputs # {}
          /\ TreeApply("move_all_start", <<s, tree.device[s].outputs>>,
                 move_all_start(TreeWork(tree), tree.device[s].outputs, veto))

MoveAllFinish ==
    /\ last.ret # "ABORT"
    /\ tree.queue # <<>>
    /\ \E s \in LinkedDevices, veto \in SUBSET TreeStreams, hook_stop \in BOOLEAN :
          /\ veto \subseteq {tree.queue[i] : i \in DOMAIN tree.queue}
          /\ veto = {} => ~hook_stop
          /\ TreeApply("move_all_finish", <<s, tree.queue>>,
                 pa_source_move_all_finish(TreeWork(tree), s, veto, hook_stop))

MoveAllFail ==
    /\ last.ret # "ABORT"
    /\ tree.queue # <<>>
    /\ \E hook_stop \in BOOLEAN :
          TreeApply("move_all_fail", <<"NULL", tree.queue>>,
              pa_source_move_all_fail(TreeWork(tree), hook_stop))

\* pa_source_post of a chunk on source s; delivered holds the streams the
\* chunk is pushed to
Post ==
    /\ TreeIdle
    /\ \E s \in LinkedDevices :
          /\ last' = [op |-> "post", arg |-> <<s>>, ret |-> "OK", ev |-> <<>>,
                      delivered |-> pa_source_post(tree, s)]
          /\ UNCHANGED <<source, output, volvars, portvars, movevars, rewindvars, treevars, auxvars>>

\* two hardware sources without flat volume and without streams
InitRoute ==
    /\ tree = [device |-> ByDevice(LAMBDA d :
                              IF d \in {"d1", "d2"} THEN HwDevice(FALSE, Norm)
                              ELSE NoDevice),
               stream |-> ByStream(LAMBDA o : NoStream),
               queue |-> <<>>]
    /\ budget = Unbounded
    /\ source = LinkedSource
    /\ output = [o \in Outputs |-> NoOutput]
    /\ last = NoCall
    /\ InitVolIdle /\ InitPortIdle /\ InitRewindIdle /\ InitAuxIdle

\* the volumes streams and sources are given in SpecFlat
StreamVolumes == {<<5, 5>>, <<2, 10>>, <<10, 15>>}
DeviceVolumes == {<<10, 10>>, <<10, 0>>}

\* the hardware sources d1 and d2 with flat volume, the filter source f1 on
\* d1, whose master stream is stream 1, and stream 3 on d1 at the volume
\* <<2, 10>>
InitFlat ==
    /\ LET g == [device |-> ByDevice(LAMBDA d :
                                IF d \in {"d1", "d2"} THEN HwDevice(TRUE, Norm)
                                ELSE NoDevice),
                  stream |-> ByStream(LAMBDA o : NoStream),
                  queue |-> <<>>]
       IN  Bind(tree_output_put(
                    tree_output_new(filter_new(TreeWork(g), "f1", 1, "d1"),
                                    3, "d1", <<2, 10>>, TRUE, "NULL"), 3),
                LAMBDA w :
               tree = [device |-> w.device, stream |-> w.stream, queue |-> w.queue])
    /\ budget = MaxCalls
    /\ source = LinkedSource
    /\ output = [o \in Outputs |-> NoOutput]
    /\ last = NoCall
    /\ InitVolIdle /\ InitPortIdle /\ InitRewindIdle /\ InitAuxIdle

FlatNext ==
    \/ StreamNew(StreamVolumes, BOOLEAN) \/ StreamUnlink
    \/ StreamSetVolume({<<5, 5>>}, {TRUE}) \/ DeviceSetVolume(DeviceVolumes)
    \/ MoveTo({TRUE}) \/ StartMove \/ FinishMove({TRUE})

RouteNext ==
    \/ StreamNew({Norm}, {FALSE}) \/ FilterNew \/ StreamUnlink
    \/ MoveTo(BOOLEAN) \/ StartMove \/ FinishMove(BOOLEAN) \/ FailMove
    \/ MoveAllStart \/ MoveAllFinish \/ MoveAllFail \/ Post

\* SpecAttach: streams that are created, put, unlinked and moved one call
\* at a time, on the two hardware sources

\* pa_source_output_new of a stream that is not put yet
StreamCreate ==
    /\ TreeIdle
    /\ \E o \in TreeStreams, s \in LinkedDevices :
          /\ tree.stream[o].state = "NONE"
          /\ \A x \in TreeStreams : tree.stream[x].state = "NONE" => o <= x
          /\ TreeApply("output_new", <<o, s>>,
                       tree_output_new(TreeWork(tree), o, s, Norm, FALSE, "NULL"))

\* pa_source_output_put
StreamPut ==
    /\ TreeIdle
    /\ \E o \in TreeStreams :
          /\ tree.stream[o].state = "INIT"
          /\ TreeApply("output_put", <<o, tree.stream[o].device>>,
                       tree_output_put(TreeWork(tree), o))

\* pa_source_output_unlink of a stream that was not put
StreamDrop ==
    /\ TreeIdle
    /\ \E o \in TreeStreams :
          /\ tree.stream[o].state = "INIT"
          /\ TreeApply("unlink", <<o, tree.stream[o].device>>,
                       tree_output_unlink(TreeWork(tree), o))

AttachNext ==
    \/ StreamCreate \/ StreamPut \/ StreamDrop \/ StreamUnlink
    \/ MoveTo(BOOLEAN) \/ StartMove \/ FinishMove(BOOLEAN) \/ FailMove

-----------------------------------------------------------------------------
-----------------------------------------------------------------------------
\* The mixer-dirty flag

\* pa_source_set_mixer_dirty
pa_source_set_mixer_dirty(w, is_dirty) == [w EXCEPT !.s.mixer_dirty = is_dirty]

\* the sources of the mixer-dirty specification: with and without an active
\* port, a set_port, a set_mute and a set_volume callback, with and without
\* deferred volume, monitor or not
DirtyConfigs ==
    [active_port : {"p1", "NULL"}, has_set_port : BOOLEAN, deferred_volume : BOOLEAN,
     has_set_mute : BOOLEAN, has_set_volume : BOOLEAN, monitor_of : BOOLEAN]

\* the causes the callers of the mixer-dirty specification suspend with
DirtyCauses == {"SESSION", "IDLE", "PASSTHROUGH"}

InitDirty ==
    /\ \E cfg \in DirtyConfigs :
          source = [LinkedSource EXCEPT !.active_port = cfg.active_port,
                                        !.has_set_port = cfg.has_set_port,
                                        !.deferred_volume = cfg.deferred_volume,
                                        !.has_set_mute = cfg.has_set_mute,
                                        !.has_set_volume = cfg.has_set_volume,
                                        !.monitor_of = cfg.monitor_of]
    /\ output = [o \in Outputs |-> NoOutput]
    /\ last = NoCall
    /\ InitVolIdle /\ InitPortIdle /\ InitRewindIdle /\ InitTreeIdle /\ InitAuxIdle

DirtySuspend ==
    \E suspend \in BOOLEAN, cause \in DirtyCauses, oc \in OutcomeSeqs :
        LifeCall("suspend", <<suspend, cause>>,
              pa_source_suspend(Work(source, output), suspend, cause, oc), oc)

SetMixerDirty ==
    \E is_dirty \in BOOLEAN :
        LifeApply("set_mixer_dirty", <<is_dirty>>,
              pa_source_set_mixer_dirty(Work(source, output), is_dirty), 0)

DirtyNext == DirtySuspend \/ SetMixerDirty

-----------------------------------------------------------------------------
\* Sink inputs are created on the sinks of the core and moved between them

\* the sink inputs of the core
NInputs == 3
Inputs == 1..NInputs

\* the sinks the inputs are created on and moved to
Sinks == {"d1", "d2"}

\* a sink input that does not exist; sync_prev and sync_next are 0 for NULL
NoInput == [device |-> "NULL", state |-> "NONE", dont_move |-> FALSE,
            sync_prev |-> 0, sync_next |-> 0, passthrough |-> FALSE]

PA_SINK_INPUT_IS_LINKED(st) == st \in {"RUNNING", "CORKED"}

\* the inputs met from i along the pointer f, i not included
RECURSIVE SyncWalk(_, _, _, _)
SyncWalk(m, i, f, n) ==
    IF n = 0 \/ m[i][f] = 0 THEN {}
    ELSE {m[i][f]} \cup SyncWalk(m, m[i][f], f, n - 1)

\* i and the inputs the loops over i->sync_prev and i->sync_next visit
InputSyncChain(c, i) ==
    {i} \cup SyncWalk(c.stream, i, "sync_prev", NInputs)
        \cup SyncWalk(c.stream, i, "sync_next", NInputs)

\* update_n_corked of a sink input
input_update_n_corked(c, i, state) ==
    IF c.stream[i].device = "NULL" THEN c
    ELSE IF c.stream[i].state = "CORKED" /\ state # "CORKED"
    THEN [c EXCEPT !.device[c.stream[i].device].n_corked = @ - 1]
    ELSE IF c.stream[i].state # "CORKED" /\ state = "CORKED"
    THEN [c EXCEPT !.device[c.stream[i].device].n_corked = @ + 1]
    ELSE c

\* pa_sink_input_new for data->sink = sink and data->sync_base = base (0
\* for none): the check of the sync base, the passthrough check, the later failures (late_ok: the sample spec, the
\* FIXATE hook, the resampler), and the new input in sink->inputs, linked in
\* after its sync base
pa_sink_input_new(c, i, sink, base, passthrough, late_ok) ==
    IF base # 0 /\ ~(c.stream[base].device = sink /\ c.stream[base].state = "CORKED")
    THEN [c |-> c, ret |-> "INVALID"]
    ELSE IF ~check_passthrough_connection(c, passthrough, sink)
    THEN [c |-> c, ret |-> "BUSY"]
    ELSE IF ~late_ok THEN [c |-> c, ret |-> "NOTSUPPORTED"]
    ELSE IF NStreams(c, sink) >= MaxInputsPerSink THEN [c |-> c, ret |-> "TOOLARGE"]
    ELSE [c |-> [c EXCEPT !.stream =
                    [j \in Inputs |->
                        IF j = i
                        THEN [NoInput EXCEPT
                                 !.device = sink, !.state = "INIT",
                                 !.passthrough = passthrough,
                                 !.sync_prev = base,
                                 !.sync_next = IF base = 0 THEN 0
                                               ELSE c.stream[base].sync_next]
                        ELSE IF j = base THEN [c.stream[j] EXCEPT !.sync_next = i]
                        ELSE IF base # 0 /\ j = c.stream[base].sync_next
                        THEN [c.stream[j] EXCEPT !.sync_prev = i]
                        ELSE c.stream[j]]],
          ret |-> "OK"]

\* pa_sink_input_put of an input in the state INIT; start_corked is the
\* flag PA_SINK_INPUT_START_CORKED of i->flags, which nothing else reads
input_put(c, i, start_corked) ==
    Bind(IF start_corked THEN "CORKED" ELSE "RUNNING", LAMBDA state :
        [input_update_n_corked(c, i, state) EXCEPT !.stream[i].state = state])

\* the loops of sink_input_set_state over the input and its sync group
RECURSIVE input_set_states(_, _, _)
input_set_states(c, todo, state) ==
    IF todo = {} THEN c
    ELSE input_set_states([input_update_n_corked(c, First(todo), state)
                              EXCEPT !.stream[First(todo)].state = state],
                          todo \ {First(todo)}, state)

\* sink_input_set_state for CORKED and RUNNING, of an input on a sink
input_set_state(c, i, state) ==
    IF c.stream[i].state = state THEN c
    ELSE input_set_states(c, InputSyncChain(c, i), state)

\* pa_sink_input_unlink; pa_sink_input_kill of an input ends here
pa_sink_input_unlink(c, i) ==
    Bind(input_update_n_corked(c, i, "UNLINKED"), LAMBDA c1 :
        [c1 EXCEPT !.stream =
            [j \in Inputs |->
                IF j = i THEN NoInput
                ELSE IF j = c.stream[i].sync_prev
                THEN [c.stream[j] EXCEPT !.sync_next = c.stream[i].sync_next]
                ELSE IF j = c.stream[i].sync_next
                THEN [c.stream[j] EXCEPT !.sync_prev = c.stream[i].sync_prev]
                ELSE c.stream[j]]])

\* pa_sink_input_start_move that leaves n_corked of the sink as it is
start_move_KeepsNCorked(c, i, hook_ok) ==
    IF ~pa_sink_input_may_move(c, i) THEN [c |-> c, ret |-> "NOTSUPPORTED"]
    ELSE IF ~hook_ok THEN [c |-> c, ret |-> "HOOK"]
    ELSE [c |-> [c EXCEPT !.stream[i].device = "NULL"], ret |-> "OK"]

\* pa_sink_input_start_move; hook_ok: the MOVE_START hook lets it go on
pa_sink_input_start_move(c, i, hook_ok) ==
    IF ~pa_sink_input_may_move(c, i) THEN [c |-> c, ret |-> "NOTSUPPORTED"]
    ELSE IF ~hook_ok THEN [c |-> c, ret |-> "HOOK"]
    ELSE [c |-> [c EXCEPT !.device[c.stream[i].device].n_corked =
                              IF c.stream[i].state = "CORKED" THEN @ - 1 ELSE @,
                          !.stream[i].device = "NULL"],
          ret |-> "OK"]

\* pa_sink_input_finish_move; format_ok: pa_sink_check_format(dest, i->format)
pa_sink_input_finish_move(c, i, dest, cb, format_ok) ==
    IF ~pa_sink_input_may_move_to(c, i, dest, cb) THEN [c |-> c, ret |-> "NOTSUPPORTED"]
    ELSE IF c.stream[i].passthrough /\ ~format_ok THEN [c |-> c, ret |-> "NOTSUPPORTED"]
    ELSE [c |-> [c EXCEPT !.stream[i].device = dest,
                          !.device[dest].n_corked =
                              IF c.stream[i].state = "CORKED" THEN @ + 1 ELSE @],
          ret |-> "OK"]

\* pa_sink_input_fail_move; taken: a MOVE_FAIL hook keeps the input
pa_sink_input_fail_move(c, i, taken) ==
    IF taken THEN c ELSE pa_sink_input_unlink(c, i)

\* pa_sink_input_move_to
pa_sink_input_move_to(c, i, dest, cb, hook_ok, cb2, format_ok, taken) ==
    IF dest = c.stream[i].device THEN [c |-> c, ret |-> "OK"]
    ELSE IF ~pa_sink_input_may_move_to(c, i, dest, cb) THEN [c |-> c, ret |-> "NOTSUPPORTED"]
    ELSE Bind(pa_sink_input_start_move(c, i, hook_ok), LAMBDA r1 :
         IF r1.ret # "OK" THEN r1
         ELSE Bind(pa_sink_input_finish_move(r1.c, i, dest, cb2, format_ok), LAMBDA r2 :
              IF r2.ret # "OK"
              THEN [c |-> pa_sink_input_fail_move(r2.c, i, taken), ret |-> r2.ret]
              ELSE r2))

\* sinks without inputs
InitExclusive ==
    /\ core = [device |-> [d \in Devices |-> [master |-> 0, others |-> 0, n_corked |-> 0]],
               stream |-> [i \in Inputs |-> NoInput]]
    /\ source = LinkedSource
    /\ output = [o \in Outputs |-> NoOutput]
    /\ last = NoCall
    /\ InitVolIdle
    /\ call = NoPortCall
    /\ msg = NoMsg
    /\ impl = [port |-> "p1", hook_fired |-> FALSE]
    /\ InitRewindIdle /\ InitTreeIdle /\ InitAuxIdle

ExclApply(op, arg, r) ==
    /\ core' = r.c
    /\ last' = [op |-> op, arg |-> arg, ret |-> r.ret]
    /\ UNCHANGED <<source, output, volvars, portvars, rewindvars, treevars, auxvars>>

\* data->sync_base is an input that exists; bases and passthroughs are the
\* sync bases and the passthrough formats that the clients of a
\* specification ask for; the new input is the first one that does not exist
SinkInputNew(bases, passthroughs) ==
    \E i \in Inputs, base \in bases :
        /\ core.stream[i].state = "NONE"
        /\ \A j \in 1..(i - 1) : core.stream[j].state # "NONE"
        /\ base # 0 => core.stream[base].state \in {"INIT", "RUNNING", "CORKED"}
        /\ \E sink \in Sinks, passthrough \in passthroughs, late_ok \in BOOLEAN :
              ExclApply("sink_input_new", <<sink, passthrough, base>>,
                        pa_sink_input_new(core, i, sink, base, passthrough, late_ok))

\* corks: the flags START_CORKED that the inputs of a specification have
SinkInputPut(corks) ==
    \E i \in Inputs, start_corked \in corks :
        /\ core.stream[i].state = "INIT"
        /\ ExclApply("sink_input_put", <<i>>,
                     [c |-> input_put(core, i, start_corked), ret |-> "OK"])

\* pa_sink_input_cork of an input on a sink
SinkInputCork ==
    \E i \in Inputs, b \in BOOLEAN :
        /\ PA_SINK_INPUT_IS_LINKED(core.stream[i].state) /\ core.stream[i].device # "NULL"
        /\ ExclApply("sink_input_cork", <<i, b>>,
                     [c |-> input_set_state(core, i, IF b THEN "CORKED" ELSE "RUNNING"),
                      ret |-> "OK"])

SinkInputUnlink ==
    \E i \in Inputs :
        /\ core.stream[i].state \in {"INIT", "RUNNING", "CORKED"}
        /\ ExclApply("sink_input_unlink", <<i>>,
                     [c |-> pa_sink_input_unlink(core, i), ret |-> "OK"])

ExclMayMoveTo ==
    \E i \in Inputs, dest \in Sinks, cb \in BOOLEAN :
        /\ PA_SINK_INPUT_IS_LINKED(core.stream[i].state)
        /\ ExclApply("sink_input_may_move_to", <<i, dest>>,
                     [c |-> core,
                      ret |-> IF pa_sink_input_may_move_to(core, i, dest, cb)
                              THEN "TRUE" ELSE "FALSE"])

\* formats: what pa_sink_check_format can answer
SinkInputMoveTo(formats) ==
    \E i \in Inputs :
        /\ PA_SINK_INPUT_IS_LINKED(core.stream[i].state) /\ core.stream[i].device # "NULL"
        /\ \E dest \in Sinks, cb \in BOOLEAN, hook_ok \in BOOLEAN,
              cb2 \in BOOLEAN, format_ok \in formats, taken \in BOOLEAN :
              ExclApply("sink_input_move_to", <<i, dest>>,
                     pa_sink_input_move_to(core, i, dest, cb, hook_ok, cb2, format_ok, taken))

SinkInputStartMove ==
    \E i \in Inputs, hook_ok \in BOOLEAN :
        /\ PA_SINK_INPUT_IS_LINKED(core.stream[i].state) /\ core.stream[i].device # "NULL"
        /\ ExclApply("sink_input_start_move", <<i>>,
                     pa_sink_input_start_move(core, i, hook_ok))

SinkInputFinishMove(formats) ==
    \E i \in Inputs :
        /\ PA_SINK_INPUT_IS_LINKED(core.stream[i].state) /\ core.stream[i].device = "NULL"
        /\ \E dest \in Sinks, cb \in BOOLEAN, format_ok \in formats :
              ExclApply("sink_input_finish_move", <<i, dest>>,
                     pa_sink_input_finish_move(core, i, dest, cb, format_ok))

SinkInputFailMove ==
    \E i \in Inputs, taken \in BOOLEAN :
        /\ PA_SINK_INPUT_IS_LINKED(core.stream[i].state) /\ core.stream[i].device = "NULL"
        /\ ExclApply("sink_input_fail_move", <<i>>,
                     [c |-> pa_sink_input_fail_move(core, i, taken), ret |-> "OK"])

\* SpecExclusive: inputs with and without a passthrough format, none of
\* them in a sync group (the input of a sync group is not passthrough: its
\* sync base is on its sink), all of them running
ExclusiveNext ==
    \/ SinkInputNew({0}, BOOLEAN) \/ SinkInputPut({FALSE}) \/ SinkInputUnlink
    \/ ExclMayMoveTo \/ SinkInputMoveTo(BOOLEAN) \/ SinkInputStartMove
    \/ SinkInputFinishMove(BOOLEAN) \/ SinkInputFailMove

\* SpecGroup: PCM inputs that are corked and uncorked, in sync groups and
\* alone
GroupNext ==
    \/ SinkInputNew(Inputs \cup {0}, {FALSE}) \/ SinkInputPut(BOOLEAN) \/ SinkInputCork
    \/ SinkInputUnlink \/ SinkInputMoveTo({TRUE}) \/ SinkInputStartMove
    \/ SinkInputFinishMove({TRUE}) \/ SinkInputFailMove

-----------------------------------------------------------------------------
\* Sync groups of sink inputs on one sink

\* the sink inputs that can be created
NMembers == 3
Members == 1..NMembers

\* a sink input of the sync specification: i->state, the
\* PA_SINK_INPUT_START_CORKED flag, i->sync_prev and i->sync_next (0 for
\* NULL), and i->thread_info.state, attached, sync_prev and sync_next
NoMember == [state |-> "NONE", start_corked |-> FALSE, sync_prev |-> 0, sync_next |-> 0,
             ti_state |-> "NONE", attached |-> FALSE, ti_prev |-> 0, ti_next |-> 0]

\* i and the inputs the two loops over sync_prev and sync_next visit
SyncChain(m, i) ==
    {i} \cup SyncWalk(m, i, "sync_prev", NMembers) \cup SyncWalk(m, i, "sync_next", NMembers)

\* the same over thread_info.sync_prev and thread_info.sync_next
ThreadSyncChain(m, i) ==
    {i} \cup SyncWalk(m, i, "ti_prev", NMembers) \cup SyncWalk(m, i, "ti_next", NMembers)

\* m with the record of every input in S changed by F
OnMembers(m, S, F(_)) == [j \in Members |-> IF j \in S THEN F(m[j]) ELSE m[j]]

\* pa_sink_input_new with data->sync_base = base (0 for none): the sync
\* base has to be corked; the new input is linked in after it
pa_sink_input_new_sync(m, i, base, start_corked) ==
    IF base # 0 /\ m[base].state # "CORKED" THEN [m |-> m, ret |-> "INVALID"]
    ELSE IF base = 0
    THEN [m |-> [m EXCEPT ![i] = [NoMember EXCEPT !.state = "INIT", !.ti_state = "INIT",
                                                  !.start_corked = start_corked]],
          ret |-> "OK"]
    ELSE [m |-> [j \in Members |->
                    IF j = i
                    THEN [NoMember EXCEPT !.state = "INIT", !.ti_state = "INIT",
                                          !.start_corked = start_corked,
                                          !.sync_next = m[base].sync_next,
                                          !.sync_prev = base]
                    ELSE IF j = base THEN [m[j] EXCEPT !.sync_next = i]
                    ELSE IF j = m[base].sync_next THEN [m[j] EXCEPT !.sync_prev = i]
                    ELSE m[j]],
          ret |-> "OK"]

\* PA_SINK_MESSAGE_ADD_INPUT: the IO thread takes over the state and the
\* sync pointers of the input
sync_ADD_INPUT(m, i) ==
    [j \in Members |->
        IF j = i THEN [m[j] EXCEPT !.ti_prev = m[i].sync_prev, !.ti_next = m[i].sync_next,
                                   !.attached = TRUE, !.ti_state = m[i].state]
        ELSE IF j = m[i].sync_prev THEN [m[j] EXCEPT !.ti_next = i]
        ELSE IF j = m[i].sync_next THEN [m[j] EXCEPT !.ti_prev = i]
        ELSE m[j]]

\* PA_SINK_MESSAGE_REMOVE_INPUT
sync_REMOVE_INPUT(m, i) ==
    [j \in Members |->
        IF j = i THEN [m[j] EXCEPT !.ti_prev = 0, !.ti_next = 0, !.attached = FALSE,
                                   !.ti_state = m[i].state]
        ELSE IF j = m[i].ti_prev THEN [m[j] EXCEPT !.ti_next = m[j].sync_next]
        ELSE IF j = m[i].ti_next THEN [m[j] EXCEPT !.ti_prev = m[j].sync_prev]
        ELSE m[j]]

\* pa_sink_input_put; it asserts that the input is in the state INIT
pa_sink_input_put(m, i) ==
    IF m[i].state # "INIT" THEN [m |-> m, ret |-> "ABORT"]
    ELSE [m |-> sync_ADD_INPUT(
                   [m EXCEPT ![i].state = IF m[i].start_corked THEN "CORKED" ELSE "RUNNING"],
                   i),
          ret |-> "OK"]

\* PA_SINK_INPUT_MESSAGE_SET_STATE
sync_SET_STATE(m, i, state) ==
    OnMembers(m, ThreadSyncChain(m, i), LAMBDA r : [r EXCEPT !.ti_state = state])

\* sink_input_set_state for CORKED and RUNNING
sink_input_set_state(m, i, state) ==
    IF m[i].state = state THEN m
    ELSE OnMembers(sync_SET_STATE(m, i, state), SyncChain(m, i),
                   LAMBDA r : [r EXCEPT !.state = state])

\* pa_sink_input_unlink of an input of the sync specification
pa_sink_input_unlink_sync(m, i) ==
    Bind([j \in Members |->
             IF j = i THEN [m[j] EXCEPT !.sync_prev = 0, !.sync_next = 0,
                                        !.state = "UNLINKED"]
             ELSE IF j = m[i].sync_prev THEN [m[j] EXCEPT !.sync_next = m[i].sync_next]
             ELSE IF j = m[i].sync_next THEN [m[j] EXCEPT !.sync_prev = m[i].sync_prev]
             ELSE m[j]],
         LAMBDA m1 : IF m[i].state \in {"CORKED", "RUNNING"}
                     THEN sync_REMOVE_INPUT(m1, i) ELSE m1)

\* no sink input was created
InitSync ==
    /\ group = [j \in Members |-> NoMember]
    /\ mixer = NoMixer /\ latstate = NoLatency /\ capture = NoCapture
    /\ source = LinkedSource
    /\ output = [o \in Outputs |-> NoOutput]
    /\ last = NoCall
    /\ InitVolIdle /\ InitPortIdle /\ InitRewindIdle /\ InitTreeIdle

SyncApply(op, arg, m, ret) ==
    /\ group' = m
    /\ last' = [op |-> op, arg |-> arg, ret |-> ret]
    /\ UNCHANGED <<source, output, volvars, portvars, movevars, rewindvars, treevars,
                   mixer, latstate, capture>>

SyncNew ==
    \E i \in Members, base \in Members \cup {0}, start_corked \in BOOLEAN :
        /\ group[i].state = "NONE"
        /\ base # 0 => group[base].state \in {"INIT", "CORKED", "RUNNING"}
        /\ \E r \in {pa_sink_input_new_sync(group, i, base, start_corked)} :
              SyncApply("new", <<i, base, start_corked>>, r.m, r.ret)

SyncPut ==
    \E i \in Members :
        /\ group[i].state \in {"INIT", "CORKED", "RUNNING"}
        /\ ~group[i].attached
        /\ \E r \in {pa_sink_input_put(group, i)} :
              SyncApply("put", <<i>>, r.m, r.ret)

\* pa_sink_input_cork
SyncCork ==
    \E i \in Members, b \in BOOLEAN :
        /\ group[i].state \in {"CORKED", "RUNNING"}
        /\ SyncApply("cork", <<i, b>>,
                     sink_input_set_state(group, i, IF b THEN "CORKED" ELSE "RUNNING"),
                     "OK")

SyncUnlink ==
    \E i \in Members :
        /\ group[i].state \in {"INIT", "CORKED", "RUNNING"}
        /\ SyncApply("unlink", <<i>>, pa_sink_input_unlink_sync(group, i), "OK")

SyncNext == SyncNew \/ SyncPut \/ SyncCork \/ SyncUnlink

-----------------------------------------------------------------------------
\* The requested latency of a source (IO thread)

\* the longest latency a stream asks for
MaxRequest == 4

\* (pa_usec_t) -1: no latency is requested
NoRequest == 0 - 1

\* the latency range of the modelled dynamic-latency source
RangeMin == 2
RangeMax == 3

\* the source outputs of the latency specification
LatStreams == {1, 2}

\* what a stream asks for
Requests == {NoRequest} \cup 1..MaxRequest

\* PA_CLAMP
PA_CLAMP(x, low, high) == IF x > high THEN high ELSE IF x < low THEN low ELSE x

\* the latency fields of a linked source: flags & PA_SOURCE_DYNAMIC_LATENCY
\* and s->thread_info; stream[o] has the state of the output, its
\* o->thread_info.requested_source_latency and, as a record of the calls,
\* the latency the stream asked for last
LatSource(dynamic, fixed) ==
    [dynamic |-> dynamic, fixed_latency |-> fixed,
     min_latency |-> IF dynamic THEN RangeMin ELSE 1,
     max_latency |-> IF dynamic THEN RangeMax ELSE MaxRequest,
     requested_latency |-> 0, requested_latency_valid |-> FALSE,
     outputs |-> {},
     stream |-> <<[state |-> "INIT", requested_source_latency |-> NoRequest,
                   asked |-> NoRequest],
                  [state |-> "INIT", requested_source_latency |-> NoRequest,
                   asked |-> NoRequest]>>]

\* the least element of a non-empty set of latencies
LeastOf(S) == CHOOSE x \in S : \A y \in S : x <= y

\* the loop of pa_source_get_requested_latency_within_thread and the clamp
\* of its result
ComputeRequested(l) ==
    LET R == {l.stream[o].requested_source_latency : o \in l.outputs} \ {NoRequest}
    IN  IF R = {} THEN NoRequest
        ELSE PA_CLAMP(LeastOf(R), l.min_latency, l.max_latency)

\* the value pa_source_get_requested_latency_within_thread returns
RequestedLatency(l) ==
    IF ~l.dynamic THEN PA_CLAMP(l.fixed_latency, l.min_latency, l.max_latency)
    ELSE IF l.requested_latency_valid THEN l.requested_latency
    ELSE ComputeRequested(l)

\* pa_source_get_requested_latency_within_thread of a linked source: the
\* result is cached
pa_source_get_requested_latency_within_thread(l) ==
    IF ~l.dynamic \/ l.requested_latency_valid THEN l
    ELSE [l EXCEPT !.requested_latency = ComputeRequested(l),
                   !.requested_latency_valid = TRUE]

\* pa_source_invalidate_requested_latency that leaves the cache valid
invalidate_KeepsCache(l, reads) == l

\* pa_source_invalidate_requested_latency(s, TRUE); reads: the
\* update_requested_latency callback of the implementor asks for the
\* requested latency
pa_source_invalidate_requested_latency(l, reads) ==
    IF ~l.dynamic THEN l
    ELSE IF reads
    THEN pa_source_get_requested_latency_within_thread(
             [l EXCEPT !.requested_latency_valid = FALSE])
    ELSE [l EXCEPT !.requested_latency_valid = FALSE]

\* pa_source_output_set_requested_latency_within_thread
pa_source_output_set_requested_latency_within_thread(l, o, usec, reads) ==
    LET fixed == IF ~l.dynamic THEN l.fixed_latency ELSE usec
        clamped == IF fixed # NoRequest
                   THEN PA_CLAMP(fixed, l.min_latency, l.max_latency)
                   ELSE fixed
    IN  pa_source_invalidate_requested_latency(
            [l EXCEPT !.stream[o].requested_source_latency = clamped], reads)

\* PA_SOURCE_MESSAGE_ADD_OUTPUT: the stream joins s->thread_info.outputs and
\* its requested latency is fixed up
lat_ADD_OUTPUT(l, o, reads) ==
    LET l1 == [l EXCEPT !.outputs = @ \cup {o}, !.stream[o].state = "ATTACHED"]
        r == l1.stream[o].requested_source_latency
        l2 == IF r # NoRequest
              THEN pa_source_output_set_requested_latency_within_thread(l1, o, r, reads)
              ELSE l1
    IN  pa_source_output_set_requested_latency_within_thread(
            l2, o, l2.stream[o].requested_source_latency, reads)

\* PA_SOURCE_MESSAGE_REMOVE_OUTPUT
lat_REMOVE_OUTPUT(l, o, state, reads) ==
    pa_source_invalidate_requested_latency(
        [l EXCEPT !.outputs = @ \ {o}, !.stream[o].state = state], reads)

\* pa_source_output_set_requested_latency: through the message of a linked
\* stream with a source, directly for a stream that is not put yet (it has
\* a source) or is being moved (it has none)
pa_source_output_set_requested_latency(l, o, usec, reads) ==
    LET l1 == [l EXCEPT !.stream[o].asked = usec]
    IN  IF l.stream[o].state = "ATTACHED"
        THEN pa_source_output_set_requested_latency_within_thread(l1, o, usec, reads)
        ELSE IF l.stream[o].state = "INIT"
        THEN LET fixed == IF ~l.dynamic THEN l.fixed_latency ELSE usec
             IN  [l1 EXCEPT !.stream[o].requested_source_latency =
                     IF fixed # NoRequest
                     THEN PA_CLAMP(fixed, l.min_latency, l.max_latency)
                     ELSE fixed]
        ELSE [l1 EXCEPT !.stream[o].requested_source_latency = usec]

\* a linked source with dynamic latency, or with a fixed latency, and two
\* streams created on it
InitLatency ==
    /\ \E dynamic \in BOOLEAN, fixed \in {2, 3} :
          latstate = LatSource(dynamic, IF dynamic THEN 0 ELSE fixed)
    /\ mixer = NoMixer /\ group = NoGroup /\ capture = NoCapture
    /\ source = LinkedSource
    /\ output = [o \in Outputs |-> NoOutput]
    /\ last = NoCall
    /\ InitVolIdle /\ InitPortIdle /\ InitRewindIdle /\ InitTreeIdle

LatApply(op, arg, l) ==
    /\ latstate' = l
    /\ last' = [op |-> op, arg |-> arg, ret |-> RequestedLatency(l)]
    /\ UNCHANGED <<source, output, volvars, portvars, movevars, rewindvars, treevars,
                   mixer, group, capture>>

\* pa_source_output_put, and pa_source_output_finish_move onto the source
LatAttach ==
    \E o \in LatStreams, reads \in BOOLEAN :
        /\ latstate.stream[o].state \in {"INIT", "MOVING"}
        /\ LatApply("attach", <<o>>, lat_ADD_OUTPUT(latstate, o, reads))

\* pa_source_output_start_move and pa_source_output_unlink
LatDetach ==
    \E o \in LatStreams, state \in {"MOVING", "UNLINKED"}, reads \in BOOLEAN :
        /\ latstate.stream[o].state = "ATTACHED"
        /\ LatApply("detach", <<o>>, lat_REMOVE_OUTPUT(latstate, o, state, reads))

LatRequest ==
    \E o \in LatStreams, usec \in Requests, reads \in BOOLEAN :
        LatApply("request", <<o, usec>>,
                 pa_source_output_set_requested_latency(latstate, o, usec, reads))

\* the implementor asks for the requested latency
LatGet ==
    LatApply("get", <<>>, pa_source_get_requested_latency_within_thread(latstate))

LatencyNext == LatAttach \/ LatDetach \/ LatRequest \/ LatGet

-----------------------------------------------------------------------------
\* Path-set condensation (alsa-mixer.c)

\* the number of paths of the path set before condensation
NPaths == 3

\* volume_limit of an element without a volume-limit
NoLimit == 0 - 1
\* what the mixer answers for the step of 0 dB when the element has
\* disappeared or the query fails
NoStep == 0 - 2

\* a pa_alsa_element after probing: zero_step is the step of 0 dB
\* (decibel_fix_get_step or snd_mixer_selem_ask_*_dB_vol), masks stands for
\* the column masks[..][n_channels - 1] of the override map
Element(name, volume_use, volume_limit, constant_volume, zero_step, masks, switch_use, enumeration_use, options) ==
    [alsa_name |-> name, volume_use |-> volume_use, volume_limit |-> volume_limit,
     constant_volume |-> constant_volume, min_volume |-> 0, max_volume |-> 64,
     zero_step |-> zero_step, n_channels |-> 2, masks |-> masks,
     switch_use |-> switch_use, enumeration_use |-> enumeration_use,
     options |-> options]

\* a volume element without switch and enumeration
VolumeElement(name, volume_use, volume_limit, constant_volume, zero_step, masks) ==
    Element(name, volume_use, volume_limit, constant_volume, zero_step, masks,
            "IGNORE", "IGNORE", <<>>)

\* the first elements of the paths: the volume element E1 in the uses MERGE
\* (without and with volume-limit, with another override map), CONSTANT,
\* ZERO and OFF
FirstElements ==
    {VolumeElement("E1", "MERGE", NoLimit, 0, 48, "all"),
     VolumeElement("E1", "MERGE", 32, 0, 48, "all"),
     VolumeElement("E1", "MERGE", 32, 0, 48, "left"),
     VolumeElement("E1", "CONSTANT", NoLimit, 40, 48, "all"),
     VolumeElement("E1", "CONSTANT", NoLimit, 20, 48, "all"),
     VolumeElement("E1", "ZERO", NoLimit, 0, 48, "all"),
     VolumeElement("E1", "ZERO", NoLimit, 0, NoStep, "all"),
     VolumeElement("E1", "OFF", NoLimit, 0, 48, "all")}

\* the second elements: E2 as a volume element that is OFF, as a switch
\* (MUTE, ON, SELECT) and as an enumeration
SecondElements ==
    {VolumeElement("E2", "OFF", NoLimit, 0, 48, "all"),
     Element("E2", "IGNORE", NoLimit, 0, 48, "all", "MUTE", "IGNORE", <<>>),
     Element("E2", "IGNORE", NoLimit, 0, 48, "all", "ON", "IGNORE", <<>>),
     Element("E2", "IGNORE", NoLimit, 0, 48, "all", "SELECT", "IGNORE", <<"on">>),
     Element("E2", "IGNORE", NoLimit, 0, 48, "all", "SELECT", "IGNORE", <<"on", "off">>),
     Element("E3", "IGNORE", NoLimit, 0, 48, "all", "IGNORE", "SELECT", <<"mic">>),
     Element("E3", "IGNORE", NoLimit, 0, 48, "all", "IGNORE", "SELECT", <<"mic", "line">>)}

\* a pa_alsa_jack
Jack(name, has_control, plugged, unplugged) ==
    [alsa_name |-> name, has_control |-> has_control,
     state_plugged |-> plugged, state_unplugged |-> unplugged]

JackLists ==
    {<<>>,
     <<Jack("J1", TRUE, "YES", "NO")>>,
     <<Jack("J1", TRUE, "UNKNOWN", "NO")>>,
     <<Jack("J1", FALSE, "YES", "NO")>>}

\* the element lists of the paths: E1 alone, or a MERGE E1 followed by a
\* second element
ElementLists ==
    {<<a>> : a \in FirstElements}
        \cup {<<a, b>> : a \in {x \in FirstElements : x.volume_use = "MERGE"
                                                       /\ x.masks = "all"},
                         b \in SecondElements}

\* the paths a path set is made of: few jack lists with every element list,
\* and every jack list with the paths of one MERGE element
PathLib ==
    {[jacks |-> <<>>, elements |-> es] : es \in ElementLists}
        \cup {[jacks |-> js, elements |-> <<a>>] :
                  js \in JackLists,
                  a \in {x \in FirstElements : x.volume_use = "MERGE" /\ x.masks = "all"}}

\* options_have_option
options_have_option(options, alsa_name) ==
    \E i \in DOMAIN options : options[i] = alsa_name

\* enumeration_is_subset; an empty list of options is the NULL list
enumeration_is_subset(a_options, b_options) ==
    IF a_options = <<>> THEN TRUE
    ELSE IF b_options = <<>> THEN FALSE
    ELSE \A i \in DOMAIN a_options : options_have_option(b_options, a_options[i])

\* a_limit of element_is_subset: the highest step element a can be set to
ElementLimit(a) ==
    CASE a.volume_use = "CONSTANT" -> a.constant_volume
      [] a.volume_use = "ZERO" -> a.zero_step
      [] a.volume_use = "OFF" -> a.min_volume
      [] a.volume_use = "MERGE" -> a.volume_limit

\* element_is_subset
element_is_subset(a, b) ==
    /\ a.volume_use # "IGNORE" =>
          /\ ~(/\ a.volume_use = "CONSTANT" /\ b.volume_use = "CONSTANT"
               /\ a.constant_volume # b.constant_volume)
          /\ ~(a.volume_use # b.volume_use /\ b.volume_use # "MERGE")
          /\ (b.volume_use = "MERGE" /\ b.volume_limit >= 0) =>
                /\ ElementLimit(a) # NoStep
                /\ ElementLimit(a) <= b.volume_limit
          /\ a.volume_use = "MERGE" =>
                /\ a.n_channels = b.n_channels
                /\ a.masks = b.masks
    /\ a.switch_use # "IGNORE" =>
          IF a.switch_use # b.switch_use
          THEN /\ a.switch_use \notin {"SELECT", "MUTE"}
               /\ b.switch_use \notin {"OFF", "ON"}
               /\ b.switch_use = "SELECT" =>
                     /\ a.switch_use = "ON" => options_have_option(b.options, "on")
                     /\ a.switch_use = "OFF" => options_have_option(b.options, "off")
          ELSE a.switch_use = "SELECT" => enumeration_is_subset(a.options, b.options)
    /\ a.enumeration_use # "IGNORE" =>
          /\ b.enumeration_use # "IGNORE"
          /\ enumeration_is_subset(a.options, b.options)

\* is_subset that walks the elements only as far as both paths have one
is_subset_CommonPrefix(p, p2) ==
    /\ \A i \in DOMAIN p.jacks :
          p.jacks[i].has_control =>
              \E j \in DOMAIN p2.jacks :
                  /\ p2.jacks[j].has_control
                  /\ p2.jacks[j].alsa_name = p.jacks[i].alsa_name
                  /\ p.jacks[i].state_plugged = p2.jacks[j].state_plugged
                  /\ p.jacks[i].state_unplugged = p2.jacks[j].state_unplugged
    /\ \A i \in DOMAIN p.elements \cap DOMAIN p2.elements :
          /\ p.elements[i].alsa_name = p2.elements[i].alsa_name
          /\ element_is_subset(p.elements[i], p2.elements[i])

\* is_subset of path_set_condense for the paths p and p2: the jacks of p
\* with a control are found in p2, and the elements are subsets pair by pair
is_subset(p, p2) ==
    /\ \A i \in DOMAIN p.jacks :
          p.jacks[i].has_control =>
              \E j \in DOMAIN p2.jacks :
                  /\ p2.jacks[j].has_control
                  /\ p2.jacks[j].alsa_name = p.jacks[i].alsa_name
                  /\ p.jacks[i].state_plugged = p2.jacks[j].state_plugged
                  /\ p.jacks[i].state_unplugged = p2.jacks[j].state_unplugged
    /\ Len(p.elements) = Len(p2.elements)
    /\ \A i \in DOMAIN p.elements :
          /\ p.elements[i].alsa_name = p2.elements[i].alsa_name
          /\ element_is_subset(p.elements[i], p2.elements[i])

\* a sequence without its i-th member
RemoveAt(s, i) == SubSeq(s, 1, i - 1) \o SubSeq(s, i + 1, Len(s))

\* the loops of path_set_condense that go on with the path after the next
\* one when a path was removed
RECURSIVE condense_from_SkipAfterRemove(_, _)
condense_from_SkipAfterRemove(paths, i) ==
    IF i > Len(paths) THEN paths
    ELSE IF \E j \in DOMAIN paths : j # i /\ is_subset(paths[i], paths[j])
    THEN condense_from_SkipAfterRemove(RemoveAt(paths, i), i + 1)
    ELSE condense_from_SkipAfterRemove(paths, i + 1)

\* the two loops of path_set_condense from the i-th path on; paths is
\* ps->paths in the order PA_HASHMAP_FOREACH visits it
RECURSIVE condense_from(_, _)
condense_from(paths, i) ==
    IF i > Len(paths) THEN paths
    ELSE IF \E j \in DOMAIN paths : j # i /\ is_subset(paths[i], paths[j])
    THEN condense_from(RemoveAt(paths, i), i)
    ELSE condense_from(paths, i + 1)

\* path_set_condense
path_set_condense(paths) ==
    IF Len(paths) < 2 THEN paths ELSE condense_from(paths, 1)

\* mapping_paths_probe has probed the paths: they are in ps->paths in some
\* order
InitCondense ==
    /\ \E n \in 1..NPaths : \E paths \in [1..n -> PathLib] :
          mixer = [paths |-> paths, probed |-> paths, condensed |-> FALSE]
    /\ tree = NoTree /\ budget = Unbounded
    /\ latstate = NoLatency /\ group = NoGroup /\ capture = NoCapture
    /\ source = LinkedSource
    /\ output = [o \in Outputs |-> NoOutput]
    /\ last = NoCall
    /\ InitVolIdle /\ InitPortIdle /\ InitRewindIdle

Condense ==
    /\ ~mixer.condensed
    /\ mixer' = [mixer EXCEPT !.paths = path_set_condense(mixer.paths),
                              !.condensed = TRUE]
    /\ UNCHANGED <<source, output, last, volvars, portvars, movevars, rewindvars,
                   treevars, latstate, group, capture>>

CondenseNext == Condense

-----------------------------------------------------------------------------
\* Chunks posted to a source (IO thread)

\* the chunks of a run; a chunk is its number, and every chunk is one frame
MaxChunks == 3

\* the source outputs in s->thread_info.outputs
PostStreams == {1, 2}

\* the frames an output without a process_rewind callback holds back:
\* s->thread_info.max_rewind
DelayLimit == 1

\* the IO thread's view of a linked source and of the outputs attached to
\* it.  delay is o->thread_info.delay_memblockq, oldest chunk first; pushed
\* are the chunks given to o->push; heard are the chunks that were posted
\* while the source was not suspended and the output was running.
CaptureSource(push, rewind, direct) ==
    [state |-> "IDLE", posted |-> 0,
     stream |-> [o \in PostStreams |->
                    [state |-> "RUNNING", has_push |-> o \in push,
                     has_process_rewind |-> o \in rewind,
                     direct_on_input |-> o \in direct,
                     delay |-> <<>>, pushed |-> {}, heard |-> {}]]]

\* pa_source_output_push: the loop that implements the delay queue
RECURSIVE DelayLoop(_, _)
DelayLoop(r, limit) ==
    IF Len(r.delay) > limit
    THEN DelayLoop([r EXCEPT !.pushed = @ \cup {Head(r.delay)}, !.delay = Tail(@)], limit)
    ELSE r

\* pa_source_output_push that does not look at the state of the output
push_IgnoresCork(r, chunk) ==
    IF ~r.has_push THEN r
    ELSE DelayLoop([r EXCEPT !.delay = Append(@, chunk)],
                   IF r.has_process_rewind THEN 0 ELSE DelayLimit)

\* pa_source_output_push of an output of the record r
pa_source_output_push(r, chunk) ==
    IF ~r.has_push \/ r.state = "CORKED" THEN r
    ELSE DelayLoop([r EXCEPT !.delay = Append(@, chunk)],
                   IF r.has_process_rewind THEN 0 ELSE DelayLimit)

\* pa_source_post in the IO thread
post_within_thread(c, chunk) ==
    IF c.state = "SUSPENDED" THEN c
    ELSE [c EXCEPT !.stream =
             [o \in PostStreams |->
                 IF ~c.stream[o].direct_on_input
                 THEN pa_source_output_push(c.stream[o], chunk)
                 ELSE c.stream[o]]]

\* pa_source_post_direct
pa_source_post_direct(c, o, chunk) ==
    IF c.state = "SUSPENDED" THEN c
    ELSE [c EXCEPT !.stream[o] = pa_source_output_push(c.stream[o], chunk)]

\* pa_source_output_set_state_within_thread
pa_source_output_set_state_within_thread(c, o, state) ==
    IF state = c.stream[o].state THEN c ELSE [c EXCEPT !.stream[o].state = state]

\* a linked source with two outputs attached, with and without a push
\* callback and a process_rewind callback, on the source or on a sink input
InitPost ==
    /\ \E push \in SUBSET PostStreams, rewind \in SUBSET PostStreams,
          direct \in SUBSET {2} :
          capture = CaptureSource(push, rewind, direct)
    /\ mixer = NoMixer /\ latstate = NoLatency /\ group = NoGroup
    /\ source = LinkedSource
    /\ output = [o \in Outputs |-> NoOutput]
    /\ last = NoCall
    /\ InitVolIdle /\ InitPortIdle /\ InitRewindIdle /\ InitTreeIdle

\* the next chunk is posted; the outputs it is meant for hear it if the
\* source is not suspended and they are running
PostApply(op, arg, c, meant) ==
    /\ capture' = [c EXCEPT
                     !.posted = @ + 1,
                     !.stream = [o \in PostStreams |->
                                    IF /\ o \in meant
                                       /\ capture.state # "SUSPENDED"
                                       /\ capture.stream[o].state = "RUNNING"
                                    THEN [c.stream[o] EXCEPT !.heard = @ \cup {arg}]
                                    ELSE c.stream[o]]]
    /\ last' = [op |-> op, arg |-> arg, ret |-> "OK"]
    /\ UNCHANGED <<source, output, volvars, portvars, movevars, rewindvars, treevars,
                   mixer, latstate, group>>

\* the implementor of the source posts a chunk
PostChunk ==
    /\ capture.posted < MaxChunks
    /\ PostApply("post", capture.posted + 1,
                 post_within_thread(capture, capture.posted + 1),
                 {o \in PostStreams : ~capture.stream[o].direct_on_input})

\* a sink input posts a chunk to an output that records from it
PostDirect ==
    /\ capture.posted < MaxChunks
    /\ \E o \in PostStreams :
          /\ capture.stream[o].direct_on_input
          /\ PostApply("post_direct", capture.posted + 1,
                       pa_source_post_direct(capture, o, capture.posted + 1), {o})

\* PA_SOURCE_MESSAGE_SET_STATE
PostSourceSetState ==
    \E state \in {"IDLE", "RUNNING", "SUSPENDED"} :
        /\ state # capture.state
        /\ capture' = [capture EXCEPT !.state = state]
        /\ last' = [op |-> "source_set_state", arg |-> 0, ret |-> "OK"]
        /\ UNCHANGED <<source, output, volvars, portvars, movevars, rewindvars, treevars,
                       mixer, latstate, group>>

\* PA_SOURCE_OUTPUT_MESSAGE_SET_STATE: the output is corked or uncorked
PostOutputSetState ==
    \E o \in PostStreams, state \in {"RUNNING", "CORKED"} :
        /\ capture' = pa_source_output_set_state_within_thread(capture, o, state)
        /\ last' = [op |-> "output_set_state", arg |-> 0, ret |-> "OK"]
        /\ UNCHANGED <<source, output, volvars, portvars, movevars, rewindvars, treevars,
                       mixer, latstate, group>>

PostNext == PostChunk \/ PostDirect \/ PostSourceSetState \/ PostOutputSetState

-----------------------------------------------------------------------------
vars == <<source, output, last, now, volume_changes, volume_changes_tail,
          current_hw_volume, vol_log,
          call, msg, impl, core, input, tree, budget, mixer, latstate, group, capture>>

Init == InitLife /\ InitVolIdle /\ InitPortIdle /\ InitRewindIdle /\ InitTreeIdle /\ InitAuxIdle
Next == LifeNext
Spec == Init /\ [][Next]_vars

SpecVol == InitVol /\ [][VolNext]_vars

SpecPort == InitPort /\ [][PortNext]_vars

SpecMove == InitMove /\ [][MoveNext]_vars

SpecRewind == InitRewind /\ [][RewindNext]_vars

SpecRoute == InitRoute /\ [][RouteNext]_vars

SpecFlat == InitFlat /\ [][FlatNext]_vars

SpecCondense == InitCondense /\ [][CondenseNext]_vars

SpecDirty == InitDirty /\ [][DirtyNext]_vars

SpecLatency == InitLatency /\ [][LatencyNext]_vars

SpecExclusive == InitExclusive /\ [][ExclusiveNext]_vars

SpecAttach == InitRoute /\ [][AttachNext]_vars

SpecPost == InitPost /\ [][PostNext]_vars

SpecGroup == InitExclusive /\ [][GroupNext]_vars

SpecSync == InitSync /\ [][SyncNext]_vars

-----------------------------------------------------------------------------
\* Properties of the life-cycle specification

\* C1: at every moment of a linked source that is not a monitor, the state is
\* SUSPENDED exactly when the set of suspend causes is not empty.
C1_SuspendedIffCause ==
    (PA_SOURCE_IS_LINKED(source.state) /\ ~source.monitor_of)
        => ((source.state = "SUSPENDED") <=> (source.suspend_cause # {}))

\* C2: pa_source_suspend of a linked monitor source with a cause other than
\* PASSTHROUGH returns the not-supported error and changes neither the set of
\* suspend causes nor anything else of the source; with the PASSTHROUGH cause
\* the call is not refused: unless an assertion fails on the way (a stream
\* that was never put is killed), the cause is added to or removed from the
\* set.
C2_MonitorSuspendRejected ==
    [][(last'.op = "suspend" /\ source.monitor_of /\ PA_SOURCE_IS_LINKED(source.state))
        => IF last'.arg[2] # "PASSTHROUGH"
           THEN /\ last'.ret = "NOTSUPPORTED"
                /\ source' = source
                /\ output' = output
           ELSE /\ last'.ret # "NOTSUPPORTED"
                /\ last'.ret # "ABORT" =>
                       source'.suspend_cause =
                           IF last'.arg[1]
                           THEN source.suspend_cause \cup {"PASSTHROUGH"}
                           ELSE source.suspend_cause \ {"PASSTHROUGH"}]_vars

\* a linked monitor source has just refused a suspend request
C2_Witness ==
    /\ last.op = "suspend"
    /\ last.arg[2] # "PASSTHROUGH"
    /\ last.ret = "NOTSUPPORTED"
    /\ source.monitor_of
    /\ PA_SOURCE_IS_LINKED(source.state)

C10_StatusFollowsStreams ==
    last.op = "update_status"
        => source.state = IF pa_source_used_by(source) > 0 THEN "RUNNING" ELSE "IDLE"

\* C10 amended: pa_source_update_status leaves a SUSPENDED source as it is
\* and returns 0; on any other linked source a call that returns 0 leaves
\* the state RUNNING if a stream that is not corked is attached and IDLE
\* otherwise, and a call that returns an error leaves the state unchanged.
C10_UpdateStatus ==
    [][last'.op = "update_status"
        => /\ source.state = "SUSPENDED"
                => (last'.ret = "OK" /\ source' = source /\ output' = output)
           /\ (source.state # "SUSPENDED" /\ last'.ret = "OK")
                => source'.state = IF pa_source_used_by(source) > 0
                                   THEN "RUNNING" ELSE "IDLE"
           /\ last'.ret # "OK" => source' = source]_vars

\* pa_source_update_status has just moved an idle source to RUNNING
C10_Witness ==
    /\ last.op = "update_status"
    /\ last.ret = "OK"
    /\ source.state = "RUNNING"
    /\ pa_source_used_by(source) > 0

-----------------------------------------------------------------------------
\* Properties of the deferred-volume specification

\* the scheduled times of the changes an apply step takes off the list
Committed == SubSeq(volume_changes, 1, Len(volume_changes) - Len(volume_changes'))

\* C6 as stated: the changes are committed in non-decreasing order of
\* scheduled time for any interleaving of push and apply: every change an
\* apply call commits is scheduled no earlier than the change committed
\* before it, in this call or in an earlier one.
C6_CommitOrderNonDecreasing ==
    [][last'.op = "volume_change_apply"
        => \A i \in 1..Len(Committed) :
              Committed[i].at >= IF i = 1 THEN vol_log.committed_at
                                 ELSE Committed[i - 1].at]_vars

\* C6 amended: one apply call commits exactly the changes that are due
\* (scheduled time <= now), from the head of the list and in strictly
\* increasing order of scheduled time, and leaves the rest of the list as it
\* was; the last committed volume becomes the current hardware volume.
C6_ApplyCommitsDueInOrder ==
    [][last'.op = "volume_change_apply"
        => LET n == Len(Committed)
           IN  /\ volume_changes' = SubSeq(volume_changes, n + 1, Len(volume_changes))
               /\ \A i \in 1..n : Committed[i].at <= now
               /\ \A i \in 1..(n - 1) : Committed[i].at < Committed[i + 1].at
               /\ (volume_changes' # <<>> /\ PA_SOURCE_IS_LINKED(source.state))
                     => volume_changes'[1].at > now
               /\ current_hw_volume' = IF n > 0 THEN Committed[n].hw_volume
                                       ELSE current_hw_volume]_vars

\* an apply call has just committed two changes at once
C6_Witness ==
    /\ last.op = "volume_change_apply"
    /\ vol_log.applied >= 2

\* C7 as stated: two changes adjacent in the pending list are scheduled at
\* least the safety margin apart.
C7_GapAtLeastMargin ==
    \A i \in 1..(Len(volume_changes) - 1) :
        volume_changes[i + 1].at - volume_changes[i].at >= SafetyMargin

\* C7 amended: a pushed change becomes the last entry of the list; it is
\* scheduled at its base time (latency + now + extra delay) plus the safety
\* margin when its volume is above that of the entry it follows (of the
\* current hardware volume when it follows none) and minus the margin
\* otherwise, and strictly later than the entry it follows; the entries
\* before it stay as they were.
C7_PushSchedule ==
    [][(last'.op = "volume_change_push" /\ last'.ret = "OK")
        => LET q == volume_changes'
               n == Len(q)
               base == last'.arg[2] + now + ExtraDelay
               ref == IF n > 1 THEN q[n - 1].hw_volume ELSE current_hw_volume
           IN  /\ n >= 1
               /\ q[n].hw_volume = last'.arg[1]
               /\ q[n].at = IF last'.arg[1] > ref THEN base + SafetyMargin
                            ELSE base - SafetyMargin
               /\ n > 1 => q[n - 1].at < q[n].at
               /\ SubSeq(q, 1, n - 1) = SubSeq(volume_changes, 1, n - 1)]_vars

\* a push has just put a change less than the safety margin after the one
\* it follows
C7_Witness ==
    /\ last.op = "volume_change_push"
    /\ last.ret = "OK"
    /\ Len(volume_changes) >= 2
    /\ volume_changes[Len(volume_changes)].at
         - volume_changes[Len(volume_changes) - 1].at < SafetyMargin

\* scenario S3: starting from an empty list, the volumes 0.3, 0.6 and 0.2 have
\* been pushed at one base time, and no apply or flush has run since
S3Pushed ==
    /\ Len(vol_log.pushed) = 3
    /\ vol_log.pushed[1][1] = 3
    /\ vol_log.pushed[2][1] = 6
    /\ vol_log.pushed[3][1] = 2

\* C8 as stated: after the three pushes of S3 the list holds three entries in
\* non-decreasing order of scheduled time.
C8_ThreeEntries ==
    S3Pushed => /\ Len(volume_changes) = 3
                /\ \A i \in 1..2 : volume_changes[i].at <= volume_changes[i + 1].at

\* C8 amended: after the three pushes of S3 the list holds one entry, the
\* change to 0.2, scheduled the safety margin before or after the base time;
\* the apply call that follows commits it with one write_volume call once
\* its time has come, and until then commits and writes nothing.
C8_S3OneEntry ==
    [][/\ S3Pushed'
          => LET base == vol_log'.pushed[1][2] + vol_log'.pushed[1][3] + ExtraDelay
             IN  /\ Len(volume_changes') = 1
                 /\ volume_changes'[1].hw_volume = 2
                 /\ volume_changes'[1].at \in {base - SafetyMargin, base + SafetyMargin}
       /\ (S3Pushed /\ last'.op = "volume_change_apply"
                    /\ PA_SOURCE_IS_LINKED(source.state))
          => IF now >= volume_changes[1].at
             THEN /\ volume_changes' = <<>>
                  /\ current_hw_volume' = 2
                  /\ vol_log'.written = <<2>>
             ELSE /\ volume_changes' = volume_changes
                  /\ current_hw_volume' = current_hw_volume
                  /\ vol_log'.written = <<>>]_vars

\* the three pushes of scenario S3 have been made and the change to 0.2 is
\* the one pending entry
C8_Witness ==
    /\ S3Pushed
    /\ last.op = "volume_change_push"
    /\ Len(volume_changes) = 1
    /\ volume_changes[1].hw_volume = 2

-----------------------------------------------------------------------------
\* Properties of the port specification

\* C4: on a source with DEFERRED_VOLUME, pa_source_set_port returns from its
\* wait only after the IO thread has handled the SET_PORT message; at that
\* return the active port is the port the handler applied, or, when the
\* handler reported a failure, the port that was active before; and the
\* active port changes at no other moment.
C4_DeferredPortRoundTrip ==
    [][source.deferred_volume
        => /\ (last'.op = "set_port" /\ call.pc = "wait")
                => /\ msg.state = "done"
                   /\ IF msg.ret = "OK"
                      THEN /\ last'.ret = "OK"
                           /\ source'.active_port = msg.port
                           /\ impl'.port = msg.port
                      ELSE /\ last'.ret = "NOENTITY"
                           /\ source'.active_port = source.active_port
           /\ source'.active_port # source.active_port
                => /\ last'.op = "set_port"
                   /\ call.pc = "wait"
                   /\ msg.state = "done"
                   /\ msg.ret = "OK"]_vars

\* pa_source_set_port has returned 0 on a source with DEFERRED_VOLUME after
\* the IO thread applied the port
C4_Witness ==
    /\ source.deferred_volume
    /\ last.op = "set_port"
    /\ last.ret = "OK"
    /\ msg.state = "done"
    /\ msg.ret = "OK"
    /\ source.active_port = msg.port
    /\ impl.port = msg.port

\* C5: after a pa_source_set_port that returned 0 for a port that was not
\* the active one, the latency offset of the source is that of the new port
\* and the port-changed hook has been fired.
C5_LatencyOffsetFollowsPort ==
    [][(last'.op = "set_port" /\ last'.ret = "OK"
                              /\ source.active_port # last'.arg[1])
        => /\ source'.active_port = last'.arg[1]
           /\ impl'.hook_fired
           /\ source'.latency_offset = PortLatencyOffset(last'.arg[1])]_vars

\* C5, the part that holds: the port is taken over and the hook is fired
C5_PortChangedHookFired ==
    [][(last'.op = "set_port" /\ last'.ret = "OK"
                              /\ source.active_port # last'.arg[1])
        => /\ source'.active_port = last'.arg[1]
           /\ impl'.hook_fired
           /\ source'.latency_offset = source.latency_offset]_vars

-----------------------------------------------------------------------------
\* Properties of the move specification

\* stream o is the master stream of dest or of a device met on the way from
\* dest through the master streams
OnMasterChain(o, dest) ==
    \E d \in ChainDevices(core, {dest}, Cardinality(Devices)) : core.device[d].master = o

\* the last call was a may_move_to call of either side
MayMoveToCalled == last.op \in {"source_output_may_move_to", "sink_input_may_move_to"}

\* C3 as stated: may_move_to(o, dest) returns false if and only if dest is
\* the device the stream is attached to or the stream is on the chain of
\* master streams that starts at dest.
C3_FalseIffCurrentOrCycle ==
    MayMoveToCalled
        => ((last.ret = "FALSE")
               <=> \/ last.arg[2] = core.stream[last.arg[1]].device
                   \/ OnMasterChain(last.arg[1], last.arg[2]))

\* C3 amended: may_move_to(o, dest) returns true when dest is the device the
\* stream is attached to.  For any other dest it returns false exactly when
\* the stream may not move (DONT_MOVE, or direct_on_input for a source
\* output, or membership of a sync group for a sink input), or the stream is
\* on the chain of master streams that starts at dest, or dest holds the
\* maximum number of streams, or (sink input) the passthrough check refuses
\* the connection, or the stream's may_move_to callback refuses.
C3_MayMoveTo ==
    MayMoveToCalled
        => LET o == last.arg[1]
               dest == last.arg[2]
               cb == last.arg[3]
               st == core.stream[o]
               movable == IF last.op = "source_output_may_move_to"
                          THEN ~st.dont_move /\ ~st.direct_on_input
                          ELSE ~st.dont_move /\ st.sync_next = 0 /\ st.sync_prev = 0
               room == IF last.op = "source_output_may_move_to"
                       THEN NStreams(core, dest) < MaxOutputsPerSource
                       ELSE NStreams(core, dest) < MaxInputsPerSink
               passthrough_ok ==
                   \/ last.op = "source_output_may_move_to"
                   \/ /\ ~pa_sink_is_passthrough(core, dest)
                      /\ ~(st.passthrough /\ NStreams(core, dest) > 0)
           IN  (last.ret = "TRUE")
                  <=> \/ dest = st.device
                      \/ /\ movable
                         /\ ~OnMasterChain(o, dest)
                         /\ room
                         /\ passthrough_ok
                         /\ cb

\* pa_source_output_may_move_to has just refused a move that would make a
\* cycle, with nothing else against it
C3_Witness ==
    /\ last.op = "source_output_may_move_to"
    /\ last.ret = "FALSE"
    /\ last.arg[3]
    /\ last.arg[2] # core.stream[last.arg[1]].device
    /\ OnMasterChain(last.arg[1], last.arg[2])
    /\ pa_source_output_may_move(core, last.arg[1])
    /\ NStreams(core, last.arg[2]) < MaxOutputsPerSource

-----------------------------------------------------------------------------
C16_UnlinkKillsAll ==
    [][ last'.op = "unlink" =>
        /\ last'.ret # "ABORT"
        /\ source'.state = "UNLINKED"
        /\ source'.outputs = {}
        /\ source.outputs \subseteq last'.killed
      ]_vars

\* the part of C16 that holds: a pa_source_unlink that returns has killed
\* every attached stream and emptied s->outputs
C16_ReturnedUnlinkKillsAll ==
    [][ (last'.op = "unlink" /\ last'.ret # "ABORT") =>
        /\ source'.outputs = {}
        /\ source.outputs = last'.killed
        /\ \A o \in source.outputs : output'[o].state = "UNLINKED"
      ]_vars

-----------------------------------------------------------------------------
\* C17 as stated: pa_sink_input_process_rewind(i, n) moves the read index of
\* the render queue back by at most min(n, playing_for) bytes.
C17_RewindAtMostPlayingFor ==
    [][ last'.op = "process_rewind" =>
        input.read_index - input'.read_index
            <= Min(last'.arg[1], input.playing_for) ]_vars

\* C17, amended: pa_sink_input_process_rewind(i, n) moves the read index back
\* by exactly n when n > 0 and dont_rewind_render is not set, and not at all
\* otherwise, whatever playing_for is; the implementor's process_rewind gets
\* at most min(rewrite_nbytes, n + queue length); and playing_for bounds the
\* rewrite_nbytes that a request_rewind with rewrite = TRUE records.
C17_RewindExactlyRequested ==
    [][ /\ last'.op = "process_rewind" =>
            /\ input.read_index - input'.read_index =
                   IF input.dont_rewind_render THEN 0 ELSE last'.arg[1]
            /\ last'.arg[2] <= last'.arg[1] + pa_memblockq_get_length(input)
            /\ input.rewrite_nbytes # SizeMax => last'.arg[2] <= input.rewrite_nbytes
            /\ input'.rewrite_nbytes = 0
            /\ ~input'.rewrite_flush /\ ~input'.dont_rewind_render
        /\ (/\ last'.op = "request_rewind" /\ last'.arg[2]
            /\ input.state # "CORKED" /\ input.rewrite_nbytes # SizeMax) =>
            input'.rewrite_nbytes <= input.playing_for
      ]_vars

\* a process_rewind(2) has just moved the read index back by 2 although
\* nothing had been played since the last underrun (playing_for = 0)
C17_Witness ==
    /\ last.op = "process_rewind"
    /\ last.arg[1] = MaxRewind
    /\ input.playing_for = 0
    /\ input.read_index = -MaxRewind

\* no assertion of the source tree's handlers fails
TreeNoAbort == last.ret # "ABORT"

\* the calls and callbacks a handler of the tree has made
Events(l) == {l.ev[i] : i \in DOMAIN l.ev}
TreeOps == {"new", "filter_new", "unlink", "output_set_volume", "set_volume", "move_to",
            "start_move", "finish_move", "fail_move", "move_all_start",
            "move_all_finish", "move_all_fail", "post"}

\* C12: after unlink(stream) has returned the stream is UNLINKED, it is in
\* neither the control thread's nor the IO thread's stream set of a device,
\* and no chunk posted afterwards is delivered to it
C12_UnlinkedNotDelivered ==
    /\ (last.op = "unlink" /\ last.ret # "ABORT")
          => tree.stream[last.arg[1]].state = "UNLINKED"
    /\ last.op \in TreeOps =>
          \A o \in TreeStreams :
             tree.stream[o].state = "UNLINKED" =>
                /\ ~tree.stream[o].attached
                /\ \A d \in TreeDevices : /\ o \notin tree.device[d].outputs
                                         /\ o \notin tree.device[d].ti_outputs
                /\ o \notin last.delivered

\* a chunk is posted to a source one stream of which was unlinked before, and
\* is delivered to the other stream
C12_Witness ==
    /\ last.op = "post" /\ last.arg[1] = "d1" /\ last.delivered = {2}
    /\ tree.stream[1].state = "UNLINKED"
    /\ tree.stream[1].destination_source = "NULL"

\* the position of an event in the sequence of a call's events, 0 when it
\* has not happened
EventAt(l, name, o) ==
    IF <<name, o>> \in Events(l)
    THEN CHOOSE i \in DOMAIN l.ev : l.ev[i] = <<name, o>>
    ELSE 0

\* C13: whenever move_to(stream, dest) returns an error the failure has gone
\* through fail_move: moving(NULL) was invoked and only then the stream was
\* killed, unless a MOVE_FAIL hook took the stream over
C13_ErrorThroughFailMove ==
    (last.op = "move_to" /\ last.ret \notin {"OK", "ABORT"}) =>
        LET o == last.arg[1]
        IN  /\ <<"fail_move", o>> \in Events(last)
            /\ \/ /\ <<"kill", o>> \in Events(last)
                  /\ 0 < EventAt(last, "moving_NULL", o)
                  /\ EventAt(last, "moving_NULL", o) < EventAt(last, "kill", o)
               \/ /\ last.arg[6]
                  /\ <<"kill", o>> \notin Events(last)

\* C13 as the code has it: an error of move_to has gone through fail_move
\* exactly when the move had started, that is when may_move_to allowed the
\* move and no MOVE_START hook refused it (the error then comes from
\* finish_move); fail_move fires MOVE_FAIL, and unless a hook took the stream
\* over it invokes moving(NULL) and then kills the stream.  Every other
\* error leaves the stream on its device and the tree as it was.
C13_ErrorsOfMoveTo ==
    [][ (last'.op = "move_to" /\ last'.ret \notin {"OK", "ABORT"}) =>
            LET o == last'.arg[1]
                dest == last'.arg[2]
                started == /\ pa_source_output_may_move_to(tree, o, dest, last'.arg[3])
                           /\ last'.arg[4]
            IN  IF started
                THEN /\ tree'.stream[o].device = "NULL"
                     /\ IF last'.arg[6]
                        THEN /\ last'.ev = <<<<"MOVE_START", o>>, <<"fail_move", o>>,
                                             <<"MOVE_FAIL", o>>>>
                             /\ tree'.stream[o].state = "RUNNING"
                        ELSE /\ last'.ev = <<<<"MOVE_START", o>>, <<"fail_move", o>>,
                                             <<"MOVE_FAIL", o>>, <<"moving_NULL", o>>,
                                             <<"kill", o>>>>
                             /\ tree'.stream[o].state = "UNLINKED"
                ELSE /\ tree' = tree
                     /\ <<"fail_move", o>> \notin Events(last')
      ]_vars

\* a move_to whose finish_move was refused: the stream went through
\* fail_move, moving(NULL) and kill
C13_Witness ==
    /\ last.op = "move_to" /\ last.ret = "NOTSUPPORTED"
    /\ <<"fail_move", last.arg[1]>> \in Events(last)
    /\ <<"kill", last.arg[1]>> \in Events(last)
    /\ tree.stream[last.arg[1]].state = "UNLINKED"

\* a move_to that returned an error without fail_move: the stream is still
\* attached
C13_WitnessNotStarted ==
    /\ last.op = "move_to" /\ last.ret \notin {"OK", "ABORT"}
    /\ <<"fail_move", last.arg[1]>> \notin Events(last)
    /\ tree.stream[last.arg[1]].device # "NULL"

\* the streams of a move queue
Queued(q) == {q[i] : i \in DOMAIN q}

\* C14: after move_all_start(src, q) followed by move_all_finish(dest, q) or
\* move_all_fail(q) the queue is empty and every stream that was queued is
\* attached to dest (in dest's stream set, its device dest) or was passed to
\* fail_move
C14_QueueDrained ==
    (last.op \in {"move_all_finish", "move_all_fail"} /\ last.ret # "ABORT") =>
        /\ tree.queue = <<>>
        /\ \A o \in Queued(last.arg[2]) :
              \/ /\ last.op = "move_all_finish"
                 /\ tree.stream[o].device = last.arg[1]
                 /\ o \in tree.device[last.arg[1]].outputs
                 /\ o \in tree.device[last.arg[1]].ti_outputs
                 /\ <<"fail_move", o>> \notin Events(last)
              \/ /\ <<"fail_move", o>> \in Events(last)
                 /\ tree.stream[o].device = "NULL"
                 /\ \A d \in TreeDevices : o \notin tree.device[d].outputs

\* move_all_finish has attached one queued stream to dest and passed another
\* one to fail_move
C14_Witness ==
    /\ last.op = "move_all_finish" /\ last.ret # "ABORT"
    /\ Len(last.arg[2]) = 2
    /\ \E o \in Queued(last.arg[2]) : tree.stream[o].device = last.arg[1]
    /\ \E o \in Queued(last.arg[2]) : <<"fail_move", o>> \in Events(last)

\* the sources on the way from s along output_from_master
RECURSIVE MasterChain(_, _, _)
MasterChain(w, seen, n) ==
    LET more == {w.stream[w.device[d].master].device :
                    d \in {x \in seen : w.device[x].share /\ w.device[x].master # 0}}
                \ {"NULL"}
    IN  IF n = 0 \/ more \subseteq seen THEN seen
        ELSE MasterChain(w, seen \cup more, n - 1)

\* a master stream on the way from s has no source: it is being moved or was
\* unlinked
ChainBroken(w, s) ==
    \E d \in MasterChain(w, {s}, Cardinality(TreeDevices)) :
       /\ w.device[d].share
       /\ w.device[d].master = 0 \/ w.stream[w.device[d].master].device = "NULL"

\* the number of steps pa_source_get_master takes from s
RECURSIVE ChainLength(_, _, _)
ChainLength(w, s, n) ==
    IF n = 0 \/ s = "NULL" THEN 0
    ELSE IF ~w.device[s].share \/ w.device[s].master = 0 THEN 0
    ELSE 1 + ChainLength(w, w.stream[w.device[s].master].device, n - 1)

\* C18: after any sequence of device creations and stream moves, following
\* output_from_master from any device reaches a device that does not share
\* volume within a bounded number of steps, and the chain has no cycle
C18_ChainReachesRoot ==
    last.op \in TreeOps =>
        \A d \in LinkedDevices :
           /\ pa_source_get_master(tree, d) \in TreeDevices
           /\ ~tree.device[pa_source_get_master(tree, d)].share

\* C18 as the code has it: the walk from any linked device never comes back
\* to a device it has left and ends after at most as many steps as there are
\* sharing devices (far below the hard cap of find_filter_source_output);
\* it ends at a device that does not share volume unless a master stream on
\* the way has no device (it is being moved, or was unlinked), and then
\* pa_source_get_master returns NULL
C18_ChainAcyclic ==
    last.op \in TreeOps =>
        \A d \in LinkedDevices :
           LET root == pa_source_get_master(tree, d)
           IN  /\ root # "LOOP"
               /\ d \notin MasterChain(tree, {d}, Cardinality(TreeDevices)) \ {d}
                     \/ ~tree.device[d].share
               /\ ChainLength(tree, d, 100)
                     <= Cardinality({x \in TreeDevices : tree.device[x].share})
               /\ IF ChainBroken(tree, d) THEN root = "NULL"
                  ELSE root \in TreeDevices /\ ~tree.device[root].share

\* a filter on a filter whose chain of master streams reaches a hardware
\* source in two steps after a move of the lower master stream
C18_Witness ==
    /\ last.op \in {"move_to", "finish_move"} /\ last.ret = "OK"
    /\ tree.device["f2"].linked
    /\ tree.stream[tree.device["f2"].master].device = "f1"
    /\ last.arg[1] = tree.device["f1"].master
    /\ pa_source_get_master(tree, "f2") = "d2"

\* the master stream of a filter is being moved: the walk ends at NULL
C18_WitnessBroken ==
    /\ last.op = "start_move" /\ last.ret = "OK"
    /\ last.arg[1] = tree.device["f1"].master
    /\ pa_source_get_master(tree, "f1") = "NULL"

\* the IO thread's soft volume of every stream in s->thread_info.outputs is
\* the control thread's
IoSynced(s) ==
    \A o \in tree.device[s].ti_outputs :
       tree.stream[o].ti_soft_volume = tree.stream[o].soft_volume

\* the source that has handled ADD_OUTPUT, and the source that has handled
\* REMOVE_OUTPUT, in the last call ("NULL": no such message)
AddedTo ==
    IF last.op \in {"new", "finish_move"} /\ last.ret = "OK" THEN last.arg[2]
    ELSE IF last.op = "move_to" /\ last.ret = "OK" /\ last.arg[2] # last.arg[7]
    THEN last.arg[2]
    ELSE "NULL"
RemovedFrom ==
    IF last.op \in {"unlink", "start_move"} /\ last.ret = "OK" THEN last.arg[2]
    ELSE IF last.op = "move_to" /\ last.arg[2] # last.arg[7]
            /\ <<"MOVE_START", last.arg[1]>> \in Events(last)
            /\ last.arg[4]
    THEN last.arg[7]
    ELSE "NULL"

\* C11: every ADD_OUTPUT and every REMOVE_OUTPUT changes the IO thread's
\* output set and then runs the SET_SHARED_VOLUME recomputation, so that
\* after the message every stream in the IO thread's set has an IO-side soft
\* volume equal to its control-side soft volume
C11_IoSoftVolumeSynced ==
    /\ AddedTo # "NULL" => IoSynced(AddedTo)
    /\ RemovedFrom # "NULL" => IoSynced(RemovedFrom)

\* what the code gives: the volumes are synchronized when the source that
\* handled the message has a root, which it has not while the master stream
\* of a filter source above it is being moved or is unlinked
C11_SyncedUnderRoot ==
    /\ (AddedTo # "NULL" /\ pa_source_get_master(tree, AddedTo) # "NULL")
          => IoSynced(AddedTo)
    /\ (RemovedFrom # "NULL" /\ pa_source_get_master(tree, RemovedFrom) # "NULL")
          => IoSynced(RemovedFrom)

\* a stream was moved onto the filter source f1 while the master stream of f1
\* was being moved: ADD_OUTPUT has left the stream's IO-side soft volume as
\* it was on the flat-volume source
C11_StaleAfterMoveOntoFilter ==
    /\ last.op = "move_to" /\ last.ret = "OK" /\ last.arg[2] = "f1"
    /\ tree.stream[1].state = "RUNNING" /\ tree.stream[1].device = "NULL"
    /\ last.arg[1] \in tree.device["f1"].ti_outputs
    /\ ~IoSynced("f1")

\* move_to has moved a stream that feeds no sharing source between two
\* different sources that both had flat volume enabled
FlatMove ==
    /\ last'.op = "move_to" /\ last'.ret = "OK"
    /\ last'.arg[2] # last'.arg[7]
    /\ ~FeedsSharing(tree, last'.arg[1])
    /\ pa_source_flat_volume_enabled(tree, last'.arg[7])
    /\ pa_source_flat_volume_enabled(tree, last'.arg[2])

VolumeSetOn ==
    IF last.op \in {"set_volume", "new"} /\ last.ret = "OK"
    THEN LET s == IF last.op = "new" THEN last.arg[2] ELSE last.arg[1]
             root == pa_source_get_master(tree, s)
         IN  IF root \in TreeDevices /\ tree.device[root].flat
                /\ OutputsUnder(tree, root) # {}
             THEN root ELSE "NULL"
    ELSE "NULL"

\* the channel-wise maximum of the volumes of the streams of the tree of root
MaximumVolume(root) ==
    ByChannel(LAMBDA c : SetMax({tree.stream[o].volume[c] : o \in OutputsUnder(tree, root)}))

\* C20: in flat-volume mode, after set_volume on the sharing root, the
\* root's real volume is the channel-wise maximum of the attached streams'
\* volumes, and for every stream that feeds no sharing source real_ratio
\* multiplied by the root's real volume equals the stream's volume on every
\* channel that is not muted
C20_RealRatioTimesRealVolume ==
    VolumeSetOn # "NULL" =>
        LET real == tree.device[VolumeSetOn].real_volume
        IN  /\ real = MaximumVolume(VolumeSetOn)
            /\ \A o \in RegularUnder(tree, VolumeSetOn) : \A c \in 1..Channels :
                  real[c] > PA_VOLUME_MUTED =>
                     pa_sw_volume_multiply(tree.stream[o].real_ratio[c], real[c])
                        = tree.stream[o].volume[c]

\* C20 as the code has it: the real volume is that maximum; on a channel
\* that is not muted the real_ratio of a stream is its volume divided by the
\* real volume (or the ratio it had, when that already gives the volume),
\* rounded to a volume step, so that real_ratio multiplied by the real
\* volume gives the volume back when the real volume is at most
\* PA_VOLUME_NORM; the soft volume is the real_ratio, and muted on a muted
\* channel
C20_RealVolumeAndRatios ==
    VolumeSetOn # "NULL" =>
        LET real == tree.device[VolumeSetOn].real_volume
        IN  /\ real = MaximumVolume(VolumeSetOn)
            /\ \A o \in RegularUnder(tree, VolumeSetOn) : \A c \in 1..Channels :
                  LET ratio == tree.stream[o].real_ratio[c]
                      volume == tree.stream[o].volume[c]
                  IN  IF real[c] > PA_VOLUME_MUTED
                      THEN /\ \/ ratio = pa_sw_volume_divide(volume, real[c])
                              \/ pa_sw_volume_multiply(ratio, real[c]) = volume
                           /\ real[c] <= PA_VOLUME_NORM
                                 => pa_sw_volume_multiply(ratio, real[c]) = volume
                           /\ tree.stream[o].soft_volume[c] = ratio
                      ELSE tree.stream[o].soft_volume[c] = PA_VOLUME_MUTED

\* scenario S1: the streams at <<5, 5>> and <<2, 10>> on the flat-volume
\* source d1 give the real volume <<5, 10>> and the real ratios <<10, 5>> and
\* <<4, 10>>
C20_Witness ==
    /\ VolumeSetOn = "d1"
    /\ tree.device["d1"].outputs = {1, 2, 3}
    /\ tree.stream[2].volume = <<5, 5>> /\ tree.stream[3].volume = <<2, 10>>
    /\ tree.device["d1"].real_volume = <<5, 10>>
    /\ tree.stream[2].real_ratio = <<10, 5>>
    /\ tree.stream[3].real_ratio = <<4, 10>>

\* the same after set_volume(d1) has scaled the streams back to these
\* volumes
C20_WitnessSetVolume ==
    /\ C20_Witness
    /\ last.op = "set_volume" /\ last.arg = <<"d1", <<10, 10>>>>

-----------------------------------------------------------------------------
\* Properties of the path-set condensation

\* C21: after path_set_condense no path that remains in the path set is a
\* subset of another path that remains, whatever the order of the paths.
C21_NoSubsetRemains ==
    mixer.condensed =>
        \A i, j \in DOMAIN mixer.paths :
            i # j => ~is_subset(mixer.paths[i], mixer.paths[j])

\* a path set of three paths was condensed to two: one path was a subset
C21_Witness ==
    /\ mixer.condensed
    /\ Len(mixer.probed) = 3
    /\ Len(mixer.paths) = 2

\* path P of scenario S6: the MERGE element E1 without a volume-limit
S6P == [jacks |-> <<>>,
        elements |-> <<VolumeElement("E1", "MERGE", NoLimit, 0, 48, "all")>>]
\* path Q of scenario S6: E1 with the volume-limit 32 and an element that
\* is OFF
S6Q == [jacks |-> <<>>,
        elements |-> <<VolumeElement("E1", "MERGE", 32, 0, 48, "all"),
                       VolumeElement("E2", "OFF", NoLimit, 0, 48, "all")>>]

\* the path set of scenario S6 was condensed
S6Condensed ==
    /\ mixer.condensed
    /\ mixer.probed \in {<<S6P, S6Q>>, <<S6Q, S6P>>}

-----------------------------------------------------------------------------
\* Properties of the mixer-dirty flag

\* the call that has just returned is a pa_source_suspend that was carried
\* out on a source whose mixer-dirty flag was set
DirtySuspendDone ==
    /\ last'.op = "suspend"
    /\ last'.ret \notin {"ABORT", "NOTSUPPORTED"}
    /\ source.mixer_dirty

\* C23 as stated: when a source whose mixer-dirty flag is set is resumed, the
\* flag is cleared and the active port, the volume and the mute are all
\* written to the hardware.
C23_ResumeAppliesAll ==
    [][(/\ DirtySuspendDone
        /\ source.state = "SUSPENDED"
        /\ PA_SOURCE_IS_OPENED(source'.state))
        => /\ ~source'.mixer_dirty
           /\ source.active_port # "NULL" =>
                 \E i \in DOMAIN last'.hw : last'.hw[i] \in {"set_port", "SET_PORT"}
           /\ \E i \in DOMAIN last'.hw : last'.hw[i] = "set_volume"
           /\ \E i \in DOMAIN last'.hw : last'.hw[i] = "set_mute"]_vars

\* C23: a pa_source_suspend that is carried out on a source whose
\* mixer-dirty flag is set, and that leaves the SESSION cause unset, clears
\* the flag and either sets the active port (through the SET_PORT message
\* when the volume is deferred) or, when the source has no active port or no
\* set_port, calls the set_mute and the set_volume callbacks the source has;
\* while the SESSION cause is set the flag stays and nothing is written.
C23_DirtyConsumed ==
    [][DirtySuspendDone
        => IF "SESSION" \in source'.suspend_cause
           THEN source'.mixer_dirty /\ last'.hw = <<>>
           ELSE /\ ~source'.mixer_dirty
                /\ last'.hw =
                      IF source.active_port # "NULL" /\ source.has_set_port
                      THEN IF source.deferred_volume
                           THEN <<"SET_PORT">> ELSE <<"set_port">>
                      ELSE SelectSeq(<<"set_mute", "set_volume">>,
                               LAMBDA c : \/ c = "set_mute" /\ source.has_set_mute
                                          \/ c = "set_volume" /\ source.has_set_volume)]_vars

\* a source with an active port was resumed with the flag set: the port was
\* set and nothing else
C23_Witness ==
    /\ last.op = "suspend" /\ last.arg[1] = FALSE
    /\ last.hw = <<"set_port">>
    /\ source.state = "IDLE"
    /\ ~source.mixer_dirty

-----------------------------------------------------------------------------
\* C24: the requested latency the IO thread reports for a linked source is,
\* for a source with dynamic latency, the least latency asked for by the
\* streams attached to it, clamped to the latency range of the source (and
\* (pa_usec_t) -1 while no attached stream asks for one), and for a source
\* without dynamic latency its fixed latency clamped to the range.

AttachedRequests ==
    {latstate.stream[o].asked :
        o \in {x \in LatStreams : latstate.stream[x].state = "ATTACHED"}} \ {NoRequest}

C24_RequestedLatencyIsClampedMin ==
    /\ latstate # NoLatency =>
          RequestedLatency(latstate) =
              IF ~latstate.dynamic
              THEN PA_CLAMP(latstate.fixed_latency, latstate.min_latency,
                            latstate.max_latency)
              ELSE IF AttachedRequests = {} THEN NoRequest
              ELSE PA_CLAMP(LeastOf(AttachedRequests), latstate.min_latency,
                            latstate.max_latency)
    /\ latstate # NoLatency =>
          latstate.outputs = {o \in LatStreams : latstate.stream[o].state = "ATTACHED"}

\* both streams are attached to the dynamic source, the least request is
\* below the range and a cached value answers
C24_Witness ==
    /\ latstate # NoLatency
    /\ latstate.dynamic /\ latstate.requested_latency_valid
    /\ latstate.outputs = LatStreams
    /\ latstate.stream[1].asked = 1 /\ latstate.stream[2].asked = 4
    /\ RequestedLatency(latstate) = RangeMin
    /\ last.op = "request"

-----------------------------------------------------------------------------
\* C25: passthrough is exclusive on a sink.  pa_sink_input_new for a sink
\* that has a passthrough input, or of a passthrough input for a sink that
\* has an input, fails with BUSY and creates nothing (the request has come
\* as far as the passthrough check: its sync base, if it names one, is a
\* corked input of that sink); pa_sink_input_may_move_to
\* refuses the same combinations for another sink than the input's own; and
\* after any creations, moves and unlinks a passthrough input is the only
\* input of its sink.

\* the inputs in sink->inputs
InputsOf(c, d) == {i \in Inputs : c.stream[i].device = d}

\* connecting an input, passthrough or not, to the sink would mix a
\* passthrough input with another one
WouldShare(c, passthrough, d) ==
    \/ \E j \in InputsOf(c, d) : c.stream[j].passthrough
    \/ passthrough /\ InputsOf(c, d) # {}

\* data->sync_base of pa_sink_input_new passes the check of the sync base
SyncBaseValid(c, base, sink) ==
    base = 0 \/ (c.stream[base].device = sink /\ c.stream[base].state = "CORKED")

PassthroughAlone(c) ==
    \A d \in Devices :
        (\E i \in InputsOf(c, d) : c.stream[i].passthrough)
            => Cardinality(InputsOf(c, d)) = 1

C25_PassthroughExclusive ==
    [][/\ PassthroughAlone(core')
       /\ (/\ last'.op = "sink_input_new"
           /\ SyncBaseValid(core, last'.arg[3], last'.arg[1])
           /\ WouldShare(core, last'.arg[2], last'.arg[1]))
             => (last'.ret = "BUSY" /\ core' = core)
       /\ (/\ last'.op = "sink_input_may_move_to"
           /\ last'.arg[2] # core.stream[last'.arg[1]].device
           /\ WouldShare(core, core.stream[last'.arg[1]].passthrough, last'.arg[2]))
             => last'.ret = "FALSE"
       /\ (/\ last'.op \in {"sink_input_move_to", "sink_input_finish_move"}
           /\ last'.arg[2] # core.stream[last'.arg[1]].device
           /\ WouldShare(core, core.stream[last'.arg[1]].passthrough, last'.arg[2]))
             => (last'.ret = "NOTSUPPORTED"
                 /\ core'.stream[last'.arg[1]].device # last'.arg[2])]_vars

\* a passthrough input is alone on its sink, another sink has two inputs,
\* and the creation of a third input on the passthrough sink was refused
C25_Witness ==
    /\ last.op = "sink_input_new" /\ last.ret = "BUSY"
    /\ \E i \in Inputs :
          /\ core.stream[i].passthrough
          /\ PA_SINK_INPUT_IS_LINKED(core.stream[i].state)
          /\ core.stream[i].device = last.arg[1]
    /\ ~last.arg[2]
    /\ \E j \in Inputs : core.stream[j].device \notin {"NULL", last.arg[1]}

-----------------------------------------------------------------------------
\* pa_source_set_port returns after the implementor's set_port, called by
\* the control thread or by the IO thread for the SET_PORT message, failed
SetPortHandlerFailed ==
    \/ call.pc = "wait" /\ msg.ret = "FAIL"
    \/ call.pc = "idle" /\ Len(last'.arg) = 3 /\ last'.arg[3] = "FAIL"

\* the call named no port of the source, or the implementor failed
SetPortRefused ==
    /\ last'.op = "set_port"
    /\ (last'.arg[1] \notin Ports \/ SetPortHandlerFailed)

\* C26 as stated: pa_source_set_port with a name that is not a port of the
\* source, or with a failing set_port of the implementor, returns NOENTITY,
\* leaves active_port and save_port as they were and fires no hook.
C26_RefusedIsNoEntity ==
    [][SetPortRefused
        => /\ last'.ret = "NOENTITY"
           /\ source'.active_port = source.active_port
           /\ source'.save_port = source.save_port
           /\ ~impl'.hook_fired]_vars

\* C26, amended: such a call returns NOENTITY on a source that has a
\* set_port callback and NOTIMPLEMENTED on a source that has none (the
\* callback is looked at before the name); either way active_port and
\* save_port are as they were and no port-changed hook is fired.
C26_RefusedLeavesPort ==
    [][SetPortRefused
        => /\ last'.ret = IF source.has_set_port THEN "NOENTITY" ELSE "NOTIMPLEMENTED"
           /\ source'.active_port = source.active_port
           /\ source'.save_port = source.save_port
           /\ ~impl'.hook_fired]_vars

\* the IO thread's set_port failed for another port than the active one, in
\* a call that asked to save the port of a source whose port is not saved
C26_Witness ==
    /\ last.op = "set_port" /\ last.ret = "NOENTITY"
    /\ last.arg[2] /\ ~source.save_port
    /\ source.deferred_volume
    /\ msg.state = "done" /\ msg.ret = "FAIL"
    /\ msg.port = last.arg[1] /\ source.active_port # msg.port
    /\ ~impl.hook_fired

-----------------------------------------------------------------------------
\* C27 as stated: after the pa_sink_input_request_rewind calls made since
\* the last pa_sink_input_process_rewind, whatever their flags,
\* rewrite_nbytes is the greatest amount asked for, capped at playing_for.
C27_PendingIsMaxRequested ==
    last.op = "request_rewind"
        => input.rewrite_nbytes = Min(Requested(last), input.playing_for)

\* C27, amended: a pa_sink_input_request_rewind(n, rewrite, ...) call on a
\* corked stream changes nothing.  Otherwise, when the call has rewrite =
\* FALSE or a request to drop everything is pending, rewrite_nbytes is
\* (size_t) -1 after it; else it is the greater of the pending amount and n,
\* or the sink's max_rewind plus the length of the render queue if both are
\* 0, capped at the playing_for of the time of the call; playing_for may
\* change before the next call.
C27_PendingAfterRequest ==
    [][last'.op = "request_rewind"
        => IF input.state = "CORKED" THEN input' = input
           ELSE IF ~last'.arg[2] \/ input.rewrite_nbytes = SizeMax
           THEN input'.rewrite_nbytes = SizeMax
           ELSE /\ input'.rewrite_nbytes <= input.playing_for
                /\ \/ input'.rewrite_nbytes = input.playing_for
                   \/ /\ input'.rewrite_nbytes >= input.rewrite_nbytes
                      /\ input'.rewrite_nbytes >= last'.arg[1]
                      /\ input'.rewrite_nbytes \in
                            {input.rewrite_nbytes, last'.arg[1],
                             MaxRewind + pa_memblockq_get_length(input)}
                      /\ (input'.rewrite_nbytes \notin {input.rewrite_nbytes, last'.arg[1]}
                             => input.rewrite_nbytes = 0 /\ last'.arg[1] = 0)]_vars

\* a rewrite of 2 bytes was asked for after 1 byte was played: 1 is pending
C27_Witness ==
    /\ last.op = "request_rewind"
    /\ last.arg = <<2, TRUE>>
    /\ Requested(last) = 2
    /\ input.state = "RUNNING"
    /\ input.playing_for = 1
    /\ input.rewrite_nbytes = 1

-----------------------------------------------------------------------------
\* C28: whatever is pending (nothing, a number of bytes to rewrite, or the
\* request to drop everything buffered), pa_sink_input_process_rewind ends
\* with rewrite_nbytes = 0, rewrite_flush = FALSE and dont_rewind_render =
\* FALSE; a call that finds nothing pending gives the implementor 0 bytes to
\* rewrite, so a request is acted on by one call only.
C28_ProcessRewindConsumes ==
    [][last'.op = "process_rewind"
        => /\ input'.rewrite_nbytes = 0
           /\ ~input'.rewrite_flush
           /\ ~input'.dont_rewind_render
           /\ input.rewrite_nbytes = 0 => last'.arg[2] = 0
           /\ input.rewrite_nbytes = SizeMax => input'.write_index = input'.read_index]_vars

\* pa_sink_input_process_rewind told the implementor to rewrite bytes and
\* cleared the request
C28_Witness ==
    /\ last.op = "process_rewind"
    /\ last.arg[2] > 0
    /\ input.rewrite_nbytes = 0
    /\ ~input.rewrite_flush
    /\ ~input.dont_rewind_render

-----------------------------------------------------------------------------
\* pa_sink_input_peek finds nothing to read in the render queue and gets no
\* data: the stream is corked, or the implementor's pop fails
PeekUnderrun ==
    /\ last'.op = "peek"
    /\ pa_memblockq_get_length(input) = 0
    /\ (input.state = "CORKED" \/ last'.arg[2] = 0)

\* C29 as stated: such a pa_sink_input_peek hands out silence of the
\* requested length, sets drained to 1 and playing_for to 0 and adds the
\* length to underrun_for and underrun_for_sink.
C29_UnderrunCounted ==
    [][PeekUnderrun
        => /\ pa_memblockq_get_length(input') = last'.arg[1]
           /\ input'.drained = 1
           /\ input'.playing_for = 0
           /\ input'.underrun_for = input.underrun_for + last'.arg[1]
           /\ input'.underrun_for_sink = input.underrun_for_sink + last'.arg[1]]_vars

\* C29, amended: such a pa_sink_input_peek hands out silence of the
\* requested length, sets drained to 1 and playing_for to 0; it adds the
\* length to underrun_for and underrun_for_sink unless underrun_for is
\* (uint64_t) -1, as it is from the creation or the uncorking of the stream
\* until the implementor's pop gives data, and then leaves both as they are.
C29_UnderrunCountedOncePlayed ==
    [][PeekUnderrun
        => /\ pa_memblockq_get_length(input') = last'.arg[1]
           /\ input'.drained = 1
           /\ input'.playing_for = 0
           /\ IF input.underrun_for = 0 - 1
              THEN /\ input'.underrun_for = 0 - 1
                   /\ input'.underrun_for_sink = input.underrun_for_sink
              ELSE /\ input'.underrun_for = input.underrun_for + last'.arg[1]
                   /\ input'.underrun_for_sink = input.underrun_for_sink + last'.arg[1]]_vars

\* the implementor's pop failed for a running stream that had played: two
\* bytes of silence are in the queue and counted
C29_Witness ==
    /\ last.op = "peek"
    /\ last.arg = <<2, 0>>
    /\ input.state = "RUNNING"
    /\ input.drained = 1
    /\ input.playing_for = 0
    /\ input.underrun_for = 2
    /\ input.underrun_for_sink = 2
    /\ pa_memblockq_get_length(input) = 2

-----------------------------------------------------------------------------
\* the sink input was put and is not unlinked
SyncLinked(i) == group[i].state \in {"CORKED", "RUNNING"}

\* C30: the sink inputs of a sync group that were put have the same state,
\* all CORKED or all RUNNING, after any creations with a sync base, puts,
\* corks and uncorks; and the IO thread has that state for each of them.
C30_GroupSameState ==
    \A i \in Members : \A j \in SyncChain(group, i) :
        (SyncLinked(i) /\ SyncLinked(j))
            => /\ group[j].state = group[i].state
               /\ group[j].ti_state = group[i].ti_state

\* C30: pa_sink_input_put is called for inputs that were created and not
\* put, and finds them in the state INIT.
C30_PutFindsInit ==
    last.op = "put" => last.ret # "ABORT"

-----------------------------------------------------------------------------
\* C31: a sink input with a sync predecessor or successor is never moved.
\* pa_sink_input_may_move is FALSE for it; pa_sink_input_start_move, and
\* pa_sink_input_move_to to another sink than its own, return NOTSUPPORTED
\* and change nothing; and the input is always in the inputs of a sink, the
\* sink of its sync neighbours.

\* i->sync_prev || i->sync_next
InSyncGroup(c, i) == c.stream[i].sync_prev # 0 \/ c.stream[i].sync_next # 0

C31_SyncMemberNotMoved ==
    [][/\ \A i \in Inputs :
             InSyncGroup(core', i)
                 => /\ ~pa_sink_input_may_move(core', i)
                    /\ core'.stream[i].device \in Sinks
                    /\ \A j \in InputSyncChain(core', i) :
                           core'.stream[j].device = core'.stream[i].device
       /\ (last'.op = "sink_input_start_move" /\ InSyncGroup(core, last'.arg[1]))
             => (last'.ret = "NOTSUPPORTED" /\ core' = core)
       /\ (/\ last'.op = "sink_input_move_to"
           /\ InSyncGroup(core, last'.arg[1])
           /\ last'.arg[2] # core.stream[last'.arg[1]].device)
             => (last'.ret = "NOTSUPPORTED" /\ core' = core)]_vars

\* an input of a sync group of three was asked to move to the other sink
C31_Witness ==
    /\ last.op = "sink_input_move_to" /\ last.ret = "NOTSUPPORTED"
    /\ core.stream[last.arg[1]].sync_prev # 0 /\ core.stream[last.arg[1]].sync_next # 0
    /\ PA_SINK_INPUT_IS_LINKED(core.stream[last.arg[1]].state)
    /\ last.arg[2] # core.stream[last.arg[1]].device

-----------------------------------------------------------------------------
\* C32: after every call of the control thread (new, put, unlink,
\* start_move, finish_move, fail_move, move_to) o->source is the source D
\* exactly when the stream is in D->outputs, so that a stream is in the
\* outputs of one source at most; from a successful start_move until the
\* finish_move that succeeds, o->source is NULL and the stream is in the
\* outputs of no source.

\* the control side agrees on where stream o is
BackEdgeAgrees(g, o) ==
    /\ \A d \in TreeDevices : (g.stream[o].device = d) <=> (o \in g.device[d].outputs)
    /\ \A d, e \in TreeDevices :
          (o \in g.device[d].outputs /\ o \in g.device[e].outputs) => d = e

C32_BackEdgeIsMembership ==
    [][/\ \A o \in TreeStreams : BackEdgeAgrees(tree', o)
       /\ \A o \in TreeStreams :
             \* a stream is being moved from a successful start_move on
             /\ (last'.op = "start_move" /\ last'.arg[1] = o /\ last'.ret = "OK")
                   => tree'.stream[o].device = "NULL"
             \* and until finish_move or move_to attaches it or the stream ends
             /\ (tree.stream[o].state = "RUNNING" /\ tree.stream[o].device = "NULL")
                   => \/ tree'.stream[o].device = "NULL"
                      \/ /\ last'.op = "finish_move" /\ last'.arg[1] = o
                         /\ last'.ret = "OK" /\ tree'.stream[o].device = last'.arg[2]
             /\ (tree'.stream[o].state = "RUNNING" /\ tree'.stream[o].device = "NULL")
                   => \A d \in TreeDevices : o \notin tree'.device[d].outputs]_vars

\* a stream is between start_move and finish_move while the two sources
\* have other streams
C32_Witness ==
    /\ last.op = "start_move" /\ last.ret = "OK"
    /\ tree.stream[last.arg[1]].device = "NULL"
    /\ tree.device["d1"].outputs # {} /\ tree.device["d2"].outputs # {}

-----------------------------------------------------------------------------
\* C37: for every sequence of new, put, unlink (kill), start_move,
\* finish_move, fail_move and move_to the IO thread gets ADD_OUTPUT for a
\* stream that is not attached and REMOVE_OUTPUT for one that is attached
\* (no assertion of the handlers fails), and after each call
\* s->thread_info.outputs holds the streams of s->outputs that were put and
\* are linked.

\* the streams of s->outputs that were put and not unlinked
PutOutputs(g, d) == {o \in g.device[d].outputs : g.stream[o].state = "RUNNING"}

C37_IoOutputsFollowPut ==
    /\ last.ret # "ABORT"
    /\ \A d \in TreeDevices : tree.device[d].ti_outputs = PutOutputs(tree, d)
    /\ \A o \in TreeStreams :
          tree.stream[o].attached <=> \E d \in TreeDevices : o \in tree.device[d].ti_outputs

\* a stream that was put has been unlinked; its source keeps a stream that
\* is not put yet, and another stream is being moved
C37_Witness ==
    /\ last.op = "unlink" /\ tree.stream[last.arg[1]].state = "UNLINKED"
    /\ last.arg[2] \in TreeDevices
    /\ \E o \in tree.device[last.arg[2]].outputs : tree.stream[o].state = "INIT"
    /\ tree.device[last.arg[2]].ti_outputs = {}
    /\ \E o \in TreeStreams : tree.stream[o].state = "RUNNING" /\ tree.stream[o].device = "NULL"

-----------------------------------------------------------------------------
\* C33: a pa_source_update_rate that suspends the source for the change of
\* rate resumes it: the suspend cause it set is cleared when it returns, and
\* the source is not left SUSPENDED by the call, whether the implementor's
\* update_rate succeeded or not.
C33_RateUpdateResumes ==
    [][last'.op = "update_rate"
          => /\ "IDLE" \in source'.suspend_cause => "IDLE" \in source.suspend_cause
             /\ source'.state = "SUSPENDED" => source.state = "SUSPENDED"]_vars

\* what the call does: it adds the cause IDLE and nothing takes it away
C33_RateUpdateLeavesIdleCause ==
    [][(last'.op = "update_rate" /\ source'.suspend_cause # source.suspend_cause)
          => /\ source'.suspend_cause = source.suspend_cause \cup {"IDLE"}
             /\ last'.ret \in {"TRUE", "FALSE"}]_vars

-----------------------------------------------------------------------------
\* C34: a chunk posted to a source reaches the push callback of an output
\* only if, when it was posted, the IO thread's state of the source was not
\* SUSPENDED and the IO thread's state of the output was RUNNING; a chunk
\* posted while the output is corked is dropped: it is not in the delay
\* queue and is not pushed after the output is uncorked.
C34_PushedWhileRunning ==
    capture # NoCapture =>
        \A o \in PostStreams :
            /\ capture.stream[o].pushed \subseteq capture.stream[o].heard
            /\ \A k \in DOMAIN capture.stream[o].delay :
                  capture.stream[o].delay[k] \in capture.stream[o].heard

\* an output was corked for chunk 1 and uncorked for the chunks 2 and 3: it
\* was given chunk 2, holds back chunk 3 and has lost chunk 1
C34_Witness ==
    /\ capture # NoCapture
    /\ \E o \in PostStreams :
          /\ capture.stream[o].heard = {2, 3}
          /\ capture.stream[o].pushed = {2}
          /\ capture.stream[o].delay = <<3>>
          /\ capture.stream[o].state = "RUNNING"

-----------------------------------------------------------------------------
-----------------------------------------------------------------------------
\* C40: after every volume_change_push, volume_change_apply and flush the
\* list of pending changes is strictly increasing in scheduled time from
\* head to tail, volume_changes_tail points to its last entry and is NULL
\* when the list is empty, and after a push that inserts a change the new
\* change is that last entry.
C40_ListIncreasingTailLast ==
    [][/\ \A i \in 1..(Len(volume_changes') - 1) :
             volume_changes'[i].at < volume_changes'[i + 1].at
       /\ volume_changes_tail' =
             IF volume_changes' = <<>> THEN NoChange
             ELSE <<volume_changes'[Len(volume_changes')]>>
       /\ (last'.op = "volume_change_push"
             /\ ~(volume_changes = <<>> /\ last'.arg[1] = current_hw_volume))
          => /\ volume_changes' # <<>>
             /\ volume_changes'[Len(volume_changes')].hw_volume = last'.arg[1]
             /\ volume_changes'[Len(volume_changes')].at
                   \in {last'.arg[2] + now + ExtraDelay - SafetyMargin,
                        last'.arg[2] + now + ExtraDelay + SafetyMargin}]_vars

\* an apply call has committed the first of three pending changes and the
\* tail pointer still refers to the last one
C40_Witness ==
    /\ last.op = "volume_change_apply"
    /\ vol_log.applied = 1
    /\ Len(volume_changes) = 2
    /\ volume_changes_tail = <<volume_changes[2]>>

-----------------------------------------------------------------------------
\* C36: after every sequence of new, put, cork, uncork (alone and through a
\* sync group), unlink, start_move, finish_move, fail_move and move_to,
\* n_corked of each sink is the number of inputs in its set whose state is
\* CORKED, and is not above the size of the set.
C36_NCorkedCountsCorked ==
    \A d \in Sinks :
        /\ core.device[d].n_corked
              = Cardinality({i \in InputsOf(core, d) : core.stream[i].state = "CORKED"})
        /\ core.device[d].n_corked <= Cardinality(InputsOf(core, d))

\* a cork of one input of a sync group has corked another one with it, next
\* to a running input on the sink
C36_Witness ==
    /\ last.op = "sink_input_cork"
    /\ \E d \in Sinks :
          /\ core.device[d].n_corked = 2
          /\ Cardinality(InputsOf(core, d)) = 3
          /\ \E i \in InputsOf(core, d) :
                core.stream[i].state = "CORKED" /\ core.stream[i].sync_next # 0

-----------------------------------------------------------------------------
\* C38: when the state change of pa_source_update_status or pa_source_suspend
\* is rejected, by the set_state callback of the implementor or by the IO
\* thread handling SET_STATE, s->state stays what it was, set_state was
\* called with the new state and, in the second case only, once more with
\* the original state, no state-changed hook fires, no stream is killed or
\* unlinked and no stream is given a suspend callback.
C38_RejectedStateChange ==
    [][(last'.op \in {"update_status", "suspend"} /\ last'.ret = "FAIL")
        => /\ source'.state = source.state
           /\ output' = output
           /\ last'.killed = {} /\ last'.notified = {} /\ last'.on_suspend = {}
           /\ \E state \in SourceStates \ {source.state} :
                 last'.ev = IF last'.rej = "SET_STATE"
                            THEN << <<"set_state", state>>, <<"set_state", source.state>> >>
                            ELSE << <<"set_state", state>> >>]_vars

\* the IO thread has rejected the suspension of a source with a stream: the
\* source is still not suspended and the implementor was called back
C38_Witness ==
    /\ last.op = "suspend"
    /\ last.ret = "FAIL"
    /\ last.rej = "SET_STATE"
    /\ last.arg[1]
    /\ source.state = "RUNNING"
    /\ source.outputs # {}

-----------------------------------------------------------------------------
\* C39: when the IO thread corks a running sink input, the rewind request
\* is made while the state is still RUNNING, so it is recorded (the flush
\* flag is set and the sink is asked to rewind unless an earlier request
\* without rewrite is pending), and the state is CORKED afterwards; when it
\* uncorks one, underrun_for is "unknown", playing_for is 0 and the state is
\* RUNNING when the rewind request is made, so the request is recorded too
\* (flush and dont_rewind_render set, rewrite_nbytes (size_t) -1); a rewind
\* request made while the state is CORKED changes no field of the input and
\* asks nothing of the sink.
C39_CorkUncorkRewindOrder ==
    [][/\ (last'.op = "set_state" /\ input.state = "RUNNING" /\ input'.state = "CORKED")
          => /\ input'.rewrite_flush
             /\ input.rewrite_nbytes = 0
                   => input'.rewrite_nbytes
                         = Min(MaxRewind + pa_memblockq_get_length(input), input.playing_for)
             /\ input.rewrite_nbytes # SizeMax => last'.sink_rewind # NoSinkRewind
             /\ input'.playing_for = input.playing_for
             /\ input'.underrun_for = input.underrun_for
       /\ (last'.op = "set_state" /\ input.state = "CORKED" /\ last'.arg[1] = "RUNNING")
          => /\ input'.state = "RUNNING"
             /\ input'.underrun_for = NoUnderrun
             /\ input'.underrun_for_sink = 0
             /\ input'.playing_for = 0
             /\ input'.rewrite_flush /\ input'.dont_rewind_render
             /\ input'.rewrite_nbytes = SizeMax
             /\ input.rewrite_nbytes # SizeMax => last'.sink_rewind # NoSinkRewind
       /\ (last'.op = "request_rewind" /\ input.state = "CORKED")
          => input' = input /\ last'.sink_rewind = NoSinkRewind]_vars

\* a running input that had played was corked: the rewind it asked for is
\* recorded with the corked state
C39_Witness ==
    /\ last.op = "set_state"
    /\ input.state = "CORKED"
    /\ input.rewrite_flush
    /\ input.rewrite_nbytes \in 1..MaxRewind
    /\ last.sink_rewind >= 0

=============================================================================
